---- MODULE Spec2Model ----
(***************************************************************************)
(* Model of the TenoriOn step sequencer component (src/unnamed/part_001):  *)
(* the pattern grids, the sequencer interval, the live-effect collection   *)
(* with its per-frame physics, and the brightness query.                   *)
(*                                                                         *)
(* Numbers.  JavaScript numbers are modelled in fixed point, 1000 units    *)
(* per 1.0 ("milli"): positions, velocities, particle life and scale,      *)
(* volumes and brightness.  Date.now() is the variable now, in whole       *)
(* milliseconds.  The interval period is kept in microseconds.             *)
(*                                                                         *)
(* React.  A handler and the renders and effects it causes are one step:   *)
(* the state setters of the handler, then the cleanup and body of every    *)
(* useEffect whose dependencies changed.                                   *)
(***************************************************************************)
EXTENDS Integers, Sequences, FiniteSets, TLC

\* ------------------------------------------------------------ constants

ROWS == 16
COLS == 16
DEFAULT_BPM == 120
MAX_EFFECTS == 150
MIN_BPM == 60
MAX_BPM == 240
\* FLOOR_Y: 15.5
FLOOR_Y == 15500

\* The loop bounds of the source, 0 .. ROWS-1 and 0 .. COLS-1.
RowIdx == 0 .. (ROWS - 1)
ColIdx == 0 .. (COLS - 1)

\* LAYERS_CONFIG: type and baseOctave (milli) per layer id; the colour is
\* the layer id (each layer has its own colour string).
LAYERS_CONFIG ==
  [i \in 0 .. 3 |->
     CASE i = 0 -> [id |-> 0, type |-> "sine",     color |-> "#60a5fa", baseOctave |-> 0]
       [] i = 1 -> [id |-> 1, type |-> "triangle", color |-> "#34d399", baseOctave |-> -1000]
       [] i = 2 -> [id |-> 2, type |-> "drum",     color |-> "#f472b6", baseOctave |-> 0]
       [] i = 3 -> [id |-> 3, type |-> "square",   color |-> "#fbbf24", baseOctave |-> -500]]

LayerIdx == DOMAIN LAYERS_CONFIG

EFFECT_TYPES == {"RIPPLE", "GRAVITY", "SPLASH", "STAR"}

\* ------------------------------------------------------------ arithmetic

Abs(x) == IF x < 0 THEN -x ELSE x
Max(a, b) == IF a > b THEN a ELSE b
Min(a, b) == IF a < b THEN a ELSE b

\* JavaScript's % : the result takes the sign of the dividend.
JsRem(a, b) == IF a >= 0 THEN a % b ELSE -((-a) % b)

RECURSIVE SqrtSearch(_, _, _)
SqrtSearch(n, lo, hi) ==
  IF lo >= hi THEN lo
  ELSE LET mid == (lo + hi + 1) \div 2
       IN IF mid * mid <= n THEN SqrtSearch(n, mid, hi)
          ELSE SqrtSearch(n, lo, mid - 1)

\* Math.sqrt on a non-negative integer, rounded down.
ISqrt(n) == SqrtSearch(n, 0, 2000)

\* ------------------------------------------------------------ state

VARIABLES
  grids,          \* useState: per layer, per row, the cells of the row
  layerEffects,   \* useState: the archetype of each layer
  layerVolumes,   \* useState: the volume of each layer (milli)
  activeLayerIdx, \* useState: the displayed layer
  isPlaying,      \* useState
  currentCol,     \* useState
  bpm,            \* useState
  isMouseDown,    \* useState
  effects,        \* useState: the live-effect collection
  lastTouchedRef, \* useRef: the cell <<r, c>> last painted, or NoCell
  requestRef,     \* useRef: the last animation-frame request id, or 0
  frames,         \* the host's pending animation-frame requests: id -> time of the request
  timers,         \* the host's live intervals: id -> [safeBpm, msPerBeat, due]
  intervalId,     \* the intervalId of the latest sequencer effect, or 0
  engineRef,      \* useRef: <<the AudioEngine object>>, or <<>>
  contexts,       \* the host's AudioContext objects: id -> "running", "suspended", "closed"
  calls,          \* the playTone invocations of the latest interval callback
  voices,         \* the voices the latest interval callback or trigger created
  host,           \* the host's audio subsystem: "ok", "unsupported", "throwsNew", "throwsChain"
  now,            \* Date.now()
  passes,         \* history: per live effect, the simulation passes it went through
  userOps,        \* history: the number of user operations so far
  lastOp          \* history: the latest step

vars == <<grids, layerEffects, layerVolumes, activeLayerIdx, isPlaying, currentCol,
          bpm, isMouseDown, effects, lastTouchedRef, requestRef, frames, timers, intervalId,
          engineRef, contexts, calls, voices, host, now, passes, userOps, lastOp>>

\* this.ctx = null, this.masterGain = null, this.compressor = null: a context
\* is named by its id, a node by the id of the context that created it.
Null == 0
\* lastTouchedRef.current = null
NoCell == <<>>

\* ------------------------------------------------------------ bounds

\* Date.now() advances in steps of TimeStepMs ms: MaxSteps times in Spec,
\* MaxRunSteps times in SpecRun, MaxCapSteps times in SpecCap.
TimeStepMs == 100
MaxSteps == 3
MaxRunSteps == 56
MaxCapSteps == 4
\* At most MaxUserOps user operations in a behaviour of Spec.
MaxUserOps == 3
\* The history counter of simulation passes saturates at MaxPasses.
MaxPasses == 53

\* ------------------------------------------------------------ grids

\* Array(ROWS).fill().map(() => Array(COLS).fill(false))
EmptyLayer == [r \in RowIdx |-> [c \in ColIdx |-> FALSE]]

\* layerGrid[r] && layerGrid[r][c]: an index outside the array reads undefined.
CellAt(layerGrid, r, c) ==
  /\ r \in DOMAIN layerGrid
  /\ c \in DOMAIN layerGrid[r]
  /\ layerGrid[r][c]

\* The cells of a layer that read true.
ActiveCells(layerGrid) ==
  {rc \in RowIdx \X ColIdx : CellAt(layerGrid, rc[1], rc[2])}

\* ------------------------------------------------------------ AudioEngine

\* constructor()
NewEngine == [ctx |-> Null, masterGain |-> Null, compressor |-> Null, isInitialized |-> FALSE]

\* getEngine(): the engine object, created on first use. engineRef is <<>>
\* while engineRef.current is null and <<engine>> afterwards.
getEngine(ref) == IF ref = <<>> THEN <<NewEngine>> ELSE ref

\* Variant of InitEngine that constructs whenever the engine is not initialized.
InitEngineEager(e, h, ctxs) ==
  IF ~e.isInitialized
  THEN LET id == Len(ctxs) + 1
       IN CASE h = "unsupported" -> [engine |-> e, contexts |-> ctxs]
            [] h = "throwsNew"   -> [engine |-> e, contexts |-> ctxs]
            [] h = "throwsChain" -> [engine |-> [e EXCEPT !.ctx = id],
                                     contexts |-> Append(ctxs, "running")]
            [] OTHER -> [engine |-> [ctx |-> id, masterGain |-> id, compressor |-> id,
                                     isInitialized |-> TRUE],
                         contexts |-> Append(ctxs, "running")]
  ELSE [engine |-> e,
        contexts |-> IF ctxs[e.ctx] = "suspended"
                     THEN [ctxs EXCEPT ![e.ctx] = "running"] ELSE ctxs]

\* Variant of InitEngine that sets isInitialized as soon as the device exists.
InitEngineFlagFirst(e, h, ctxs) ==
  IF e.ctx = Null
  THEN LET id == Len(ctxs) + 1
       IN CASE h = "unsupported" -> [engine |-> e, contexts |-> ctxs]
            [] h = "throwsNew"   -> [engine |-> e, contexts |-> ctxs]
            [] h = "throwsChain" -> [engine |-> [e EXCEPT !.ctx = id, !.isInitialized = TRUE],
                                     contexts |-> Append(ctxs, "running")]
            [] OTHER -> [engine |-> [ctx |-> id, masterGain |-> id, compressor |-> id,
                                     isInitialized |-> TRUE],
                         contexts |-> Append(ctxs, "running")]
  ELSE [engine |-> e,
        contexts |-> IF ctxs[e.ctx] = "suspended"
                     THEN [ctxs EXCEPT ![e.ctx] = "running"] ELSE ctxs]

\* init() on engine e, host h, with the contexts ctxs: the engine and the
\* contexts afterwards. Without a context it constructs one, then the chain,
\* and an error on the way is caught and logged; with a context it constructs
\* nothing. A suspended context is resumed.
InitEngine(e, h, ctxs) ==
  IF e.ctx = Null
  THEN LET id == Len(ctxs) + 1
       IN CASE h = "unsupported" -> [engine |-> e, contexts |-> ctxs]
            [] h = "throwsNew"   -> [engine |-> e, contexts |-> ctxs]
            [] h = "throwsChain" -> [engine |-> [e EXCEPT !.ctx = id],
                                     contexts |-> Append(ctxs, "running")]
            [] OTHER -> [engine |-> [ctx |-> id, masterGain |-> id, compressor |-> id,
                                     isInitialized |-> TRUE],
                         contexts |-> Append(ctxs, "running")]
  ELSE [engine |-> e,
        contexts |-> IF ctxs[e.ctx] = "suspended"
                     THEN [ctxs EXCEPT ![e.ctx] = "running"] ELSE ctxs]

\* Variant of DisposeEngine that leaves isInitialized set.
DisposeEngineKeepingFlag(e, ctxs) ==
  IF e.ctx # Null
  THEN [engine |-> [e EXCEPT !.ctx = Null],
        contexts |-> [ctxs EXCEPT ![e.ctx] = "closed"]]
  ELSE [engine |-> e, contexts |-> ctxs]

\* dispose(): closes the context and forgets it; the nodes are kept.
DisposeEngine(e, ctxs) ==
  IF e.ctx # Null
  THEN [engine |-> [e EXCEPT !.ctx = Null, !.isInitialized = FALSE],
        contexts |-> [ctxs EXCEPT ![e.ctx] = "closed"]]
  ELSE [engine |-> e, contexts |-> ctxs]

\* The arguments of one engine.playTone(row, layerType, baseOctave, rawVolume) call.
ToneCall(r, layer, volume) ==
  [row |-> r, layerType |-> layer.type, baseOctave |-> layer.baseOctave, rawVolume |-> volume]

\* getEngine().init(): the engine reference afterwards.
EngineInit(ref, h, ctxs) == <<InitEngine(getEngine(ref)[1], h, ctxs).engine>>

\* getEngine().init(): the contexts afterwards.
ContextsInit(ref, h, ctxs) == InitEngine(getEngine(ref)[1], h, ctxs).contexts

\* PENTATONIC_RATIOS (milli)
PENTATONIC_RATIOS ==
  <<4000, 3367, 3000, 2667, 2378, 2000, 1683, 1500,
    1333, 1189, 1000, 841, 750, 667, 595, 500>>

\* Variant of PitchRatio that reads the table one entry off.
PitchRatioShifted(row) ==
  IF row \in DOMAIN PENTATONIC_RATIOS THEN PENTATONIC_RATIOS[row] ELSE 1000

\* PENTATONIC_RATIOS[row] !== undefined ? PENTATONIC_RATIOS[row] : 1.0
PitchRatio(row) ==
  IF row + 1 \in DOMAIN PENTATONIC_RATIOS THEN PENTATONIC_RATIOS[row + 1] ELSE 1000

\* Variant of Clamp without the lower limit.
ClampAbove(x, lo, hi) == Min(hi, x)

\* Math.max(lo, Math.min(hi, x))
Clamp(x, lo, hi) == Max(lo, Min(hi, x))

\* playDrum(row, rawVolume): the voices it creates, none without an
\* initialized engine. The per-trigger gain node carries the clamped volume.
playDrum(e, row, rawVolume) ==
  IF e.ctx = Null \/ ~e.isInitialized THEN <<>>
  ELSE LET volume == Clamp(rawVolume, 0, 1000)
       IN <<[kind |-> IF row >= 12 THEN "kick" ELSE IF row >= 8 THEN "snare" ELSE "hihat",
             ctx |-> e.ctx, gain |-> volume]>>

\* Variant of playTone that tests the context and not isInitialized.
playToneUnflagged(e, row, layerType, baseOctave, rawVolume) ==
  IF e.ctx = Null THEN <<>>
  ELSE <<[kind |-> "tone", ctx |-> e.ctx, type |-> "sine", ratio |-> PitchRatio(row),
          baseOctave |-> baseOctave, gain |-> (600 * Clamp(rawVolume, 0, 1000)) \div 1000,
          decayEnd |-> 500, stopAt |-> 600 + 50]>>

\* Variant of playTone that stops the oscillator at the end of the decay.
playToneStoppedAtDecay(e, row, layerType, baseOctave, rawVolume) ==
  IF e.ctx = Null \/ ~e.isInitialized THEN <<>>
  ELSE <<[kind |-> "tone", ctx |-> e.ctx,
          type |-> IF layerType \in {"sine", "square", "sawtooth", "triangle"}
                   THEN layerType ELSE "sine",
          ratio |-> PitchRatio(row), baseOctave |-> baseOctave,
          gain |-> (600 * Clamp(rawVolume, 0, 1000)) \div 1000,
          decayEnd |-> CASE layerType = "square" -> 300
                         [] layerType = "triangle" -> 800
                         [] OTHER -> 500,
          stopAt |-> CASE layerType = "square" -> 300
                       [] layerType = "triangle" -> 800
                       [] OTHER -> 500]>>

\* playTone(row, layerType, baseOctave, rawVolume): the voices it creates, none
\* without an initialized engine. Times are in ms after the trigger.
playTone(e, row, layerType, baseOctave, rawVolume) ==
  IF e.ctx = Null \/ ~e.isInitialized THEN <<>>
  ELSE LET volume == Clamp(rawVolume, 0, 1000)
       IN IF layerType = "drum" THEN playDrum(e, row, volume)
          ELSE <<[kind |-> "tone",
                  ctx |-> e.ctx,
                  type |-> IF layerType \in {"sine", "square", "sawtooth", "triangle"}
                           THEN layerType ELSE "sine",
                  ratio |-> PitchRatio(row),
                  baseOctave |-> baseOctave,
                  gain |-> CASE layerType = "square" -> (300 * volume) \div 1000
                             [] layerType = "triangle" -> (500 * volume) \div 1000
                             [] OTHER -> (600 * volume) \div 1000,
                  decayEnd |-> CASE layerType = "square" -> 300
                                 [] layerType = "triangle" -> 800
                                 [] OTHER -> 500,
                  stopAt |-> CASE layerType = "square" -> 400 + 50
                               [] layerType = "triangle" -> 900 + 50
                               [] OTHER -> 600 + 50]>>

\* The voices a sequence of playTone calls creates on engine e.
RECURSIVE VoicesOf(_, _, _, _)
VoicesOf(e, cs, lo, hi) ==
  IF lo > hi THEN <<>>
  ELSE IF lo = hi
       THEN playTone(e, cs[lo].row, cs[lo].layerType, cs[lo].baseOctave, cs[lo].rawVolume)
       ELSE LET mid == (lo + hi) \div 2
                first == VoicesOf(e, cs, lo, mid)
            IN IF Len(first) >= 0 THEN first \o VoicesOf(e, cs, mid + 1, hi) ELSE first

\* ------------------------------------------------------------ effects

\* Math.random() (milli, 0 .. 999): the k-th draw of a call seeded with seed.
Random(seed, k) == (seed + 389 * k) % 1000

\* Math.sin and Math.cos of (2 PI i) / 12 (milli), i in 0 .. 11.
SinTable == <<0, 500, 866, 1000, 866, 500, 0, -500, -866, -1000, -866, -500>>
CosTable == <<1000, 866, 500, 0, -500, -866, -1000, -866, -500, 0, 500, 866>>

particleCount == 12

\* One particle of a new SPLASH effect: speed = 0.1 + random * 0.3,
\* scale = 1.0 + random.
NewParticle(i, seed) ==
  LET speed == 100 + (Random(seed, 2 * i + 1) * 300) \div 1000
  IN [r |-> 0, c |-> 0,
      dr |-> (SinTable[i + 1] * speed) \div 1000,
      dc |-> (CosTable[i + 1] * speed) \div 1000,
      life |-> 1000,
      scale |-> 1000 + Random(seed, 2 * i + 2)]

\* Variant of NewEffect whose particle loop stops one particle early.
NewEffectShort(r, c, type, layerColor, layerIdx, t, seed) ==
  LET base == [id |-> Random(seed, 0), type |-> type, r |-> r, c |-> c,
               startTime |-> t, color |-> layerColor, layerIdx |-> layerIdx]
  IN CASE type = "GRAVITY" -> base @@ [y |-> r * 1000, dy |-> 0]
       [] type = "SPLASH" ->
            base @@ [particles |-> [k \in 1 .. (particleCount - 1) |-> NewParticle(k - 1, seed)]]
       [] OTHER -> base

\* The effect object addVisualEffect builds.
NewEffect(r, c, type, layerColor, layerIdx, t, seed) ==
  LET base == [id |-> Random(seed, 0), type |-> type, r |-> r, c |-> c,
               startTime |-> t, color |-> layerColor, layerIdx |-> layerIdx]
  IN CASE type = "GRAVITY" -> base @@ [y |-> r * 1000, dy |-> 0]
       [] type = "SPLASH" ->
            base @@ [particles |-> [k \in 1 .. particleCount |-> NewParticle(k - 1, seed)]]
       [] OTHER -> base

\* Variant of addVisualEffect without the capacity guard.
addVisualEffectUnguarded(prev, r, c, type, layerColor, layerIdx, t, seed) ==
  Append(prev, NewEffect(r, c, type, layerColor, layerIdx, t, seed))

\* Variant of addVisualEffect that puts the new effect first.
addVisualEffectPrepending(prev, r, c, type, layerColor, layerIdx, t, seed) ==
  IF Len(prev) >= MAX_EFFECTS THEN prev
  ELSE <<NewEffect(r, c, type, layerColor, layerIdx, t, seed)>> \o prev

\* The setEffects updater of addVisualEffect: rejected at capacity.
addVisualEffect(prev, r, c, type, layerColor, layerIdx, t, seed) ==
  IF Len(prev) >= MAX_EFFECTS THEN prev
  ELSE Append(prev, NewEffect(r, c, type, layerColor, layerIdx, t, seed))

\* The object built for one particle in the SPLASH branch of updatePhysics:
\* { r, c, dr, life, scale, ...p }, the spread of p coming last.
UpdateParticle(p) ==
  p @@ [r |-> p.r + p.dr,
        c |-> p.c + p.dc,
        dr |-> p.dr + 5,
        life |-> p.life - 20,
        scale |-> (p.scale * 95) \div 100]

g == 25

\* Variant of GravityStep that does not clamp the position on floor contact.
GravityStepUnclamped(y, dy, origin) ==
  LET y1 == y + dy
      dy1 == dy + g
      hit == y1 > FLOOR_Y
      height == FLOOR_Y - origin
      bounceVelocity == IF height > 0 THEN -ISqrt(2 * g * height) ELSE 0
      dy2 == IF hit THEN bounceVelocity ELSE dy1
  IN [y |-> y1, dy |-> dy2,
      stop |-> dy2 < 0 /\ dy2 > -50 /\ Abs(y1 - FLOOR_Y) < 100]

\* The GRAVITY branch of updatePhysics on an effect at height y with velocity
\* dy and origin row origin (all milli): the new height and velocity, and
\* whether the stop condition holds.
GravityStep(y, dy, origin) ==
  LET y1 == y + dy
      dy1 == dy + g
      hit == y1 > FLOOR_Y
      height == FLOOR_Y - origin
      bounceVelocity == IF height > 0 THEN -ISqrt(2 * g * height) ELSE 0
      y2 == IF hit THEN FLOOR_Y ELSE y1
      dy2 == IF hit THEN bounceVelocity ELSE dy1
  IN [y |-> y2, dy |-> dy2,
      stop |-> dy2 < 0 /\ dy2 > -50 /\ Abs(y2 - FLOOR_Y) < 100]

\* Variant of StepEffect whose GRAVITY branch has no time limit.
StepEffectNoTimeout(eff, t) ==
  CASE eff.type = "GRAVITY" ->
         LET s == GravityStep(eff.y, eff.dy, eff.r * 1000)
         IN [eff |-> [eff EXCEPT !.y = s.y, !.dy = s.dy],
             keep |-> ~s.stop]
    [] eff.type = "SPLASH" ->
         LET moved == [k \in DOMAIN eff.particles |-> UpdateParticle(eff.particles[k])]
             alive == SelectSeq(moved, LAMBDA p : p.life > 0)
         IN [eff |-> [eff EXCEPT !.particles = alive], keep |-> Len(alive) # 0]
    [] OTHER ->
         [eff |-> eff, keep |-> ~(t - eff.startTime > 600)]

\* Variant of StepEffect whose time-driven branch removes the effect at the
\* lifetime itself.
StepEffectAtLifetime(eff, t) ==
  CASE eff.type = "GRAVITY" ->
         LET s == GravityStep(eff.y, eff.dy, eff.r * 1000)
         IN [eff |-> [eff EXCEPT !.y = s.y, !.dy = s.dy],
             keep |-> ~s.stop /\ ~(t - eff.startTime > 3000)]
    [] eff.type = "SPLASH" ->
         LET moved == [k \in DOMAIN eff.particles |-> UpdateParticle(eff.particles[k])]
             alive == SelectSeq(moved, LAMBDA p : p.life > 0)
         IN [eff |-> [eff EXCEPT !.particles = alive], keep |-> Len(alive) # 0]
    [] OTHER ->
         [eff |-> eff, keep |-> ~(t - eff.startTime >= 600)]

\* One effect's turn in the loop of updatePhysics at time t: the updated
\* effect and whether it is kept.
StepEffect(eff, t) ==
  CASE eff.type = "GRAVITY" ->
         LET s == GravityStep(eff.y, eff.dy, eff.r * 1000)
         IN [eff |-> [eff EXCEPT !.y = s.y, !.dy = s.dy],
             keep |-> ~s.stop /\ ~(t - eff.startTime > 3000)]
    [] eff.type = "SPLASH" ->
         LET moved == [k \in DOMAIN eff.particles |-> UpdateParticle(eff.particles[k])]
             alive == SelectSeq(moved, LAMBDA p : p.life > 0)
         IN [eff |-> [eff EXCEPT !.particles = alive], keep |-> Len(alive) # 0]
    [] OTHER ->
         [eff |-> eff, keep |-> ~(t - eff.startTime > 600)]

\* The indices of prevEffects that updatePhysics processes and keeps, in order:
\* only the last MAX_EFFECTS are processed.
KeptIndices(prevEffects, t) ==
  LET startIndex == Max(0, Len(prevEffects) - MAX_EFFECTS)
      processing == [k \in 1 .. (Len(prevEffects) - startIndex) |-> startIndex + k]
  IN SelectSeq(processing, LAMBDA i : StepEffect(prevEffects[i], t).keep)

\* The setEffects updater of updatePhysics.
updatePhysics(prevEffects, t) ==
  IF Len(prevEffects) = 0 THEN prevEffects
  ELSE LET kept == KeptIndices(prevEffects, t)
       IN [k \in 1 .. Len(kept) |-> StepEffect(prevEffects[kept[k]], t).eff]

\* The history of passes, carried along with updatePhysics.
PassesAfter(prevEffects, prevPasses, t) ==
  IF Len(prevEffects) = 0 THEN prevPasses
  ELSE LET kept == KeptIndices(prevEffects, t)
       IN [k \in 1 .. Len(kept) |-> Min(prevPasses[kept[k]] + 1, MaxPasses)]

\* ------------------------------------------------------------ brightness

\* What one particle adds at cell (r, c).
ParticleGlow(eff, p, r, c) ==
  LET dr == r * 1000 - (eff.r * 1000 + p.r)
      dc == c * 1000 - (eff.c * 1000 + p.c)
      dist == ISqrt(dr * dr + dc * dc)
      size == p.scale \div 2
  IN IF Abs(dr) > 1000 \/ Abs(dc) > 1000 THEN 0
     ELSE IF dist < size THEN ((size - dist) * p.life) \div size
     ELSE 0

RECURSIVE SumGlow(_, _, _, _)
SumGlow(eff, k, r, c) ==
  IF k = 0 THEN 0
  ELSE SumGlow(eff, k - 1, r, c) + ParticleGlow(eff, eff.particles[k], r, c)

\* What one effect adds to the brightness of cell (r, c) at time t (milli);
\* the body of the loop of getCellBrightness after its two continue tests.
Glow(eff, r, c, t) ==
  CASE eff.type = "RIPPLE" ->
         LET timeDelta == t - eff.startTime
             radius == timeDelta * 12
             dist == Max(Abs(r - eff.r), Abs(c - eff.c)) * 1000
             distDiff == Abs(dist - radius)
         IN IF distDiff < 1000
            THEN ((1000 - distDiff) * (600 - timeDelta)) \div 600
            ELSE 0
    [] eff.type = "GRAVITY" ->
         LET distY == Abs(r * 1000 - eff.y)
             distX == Abs(c - eff.c)
         IN (IF distX = 0 /\ distY < 800 THEN 1000 - distY ELSE 0)
            + (IF distX = 0 /\ r * 1000 < eff.y /\ r >= eff.r THEN 100 ELSE 0)
    [] eff.type = "SPLASH" -> SumGlow(eff, Len(eff.particles), r, c)
    [] eff.type = "STAR" ->
         LET timeDelta == t - eff.startTime
             life == ((600 - timeDelta) * 1000) \div 600
             distR == Abs(r - eff.r)
             distC == Abs(c - eff.c)
         IN IF 600 - timeDelta > 0
            THEN (IF (distR = 0 /\ distC < 4) \/ (distC = 0 /\ distR < 4)
                  THEN ((4 - Max(distR, distC)) * life) \div 4 ELSE 0)
                 + (IF distR = distC /\ distR < 3
                    THEN ((3 - distR) * life * 7) \div 30 ELSE 0)
            ELSE 0
    [] OTHER -> 0

\* Variant of Skipped that tests the distance and not the owning layer.
SkippedByDistance(eff, layer, r, c) ==
  Abs(eff.r - r) > 8 /\ Abs(eff.c - c) > 8 /\ eff.type # "SPLASH"

\* The two continue tests: another layer's effect, or a far-away one.
Skipped(eff, layer, r, c) ==
  \/ eff.layerIdx # layer
  \/ Abs(eff.r - r) > 8 /\ Abs(eff.c - c) > 8 /\ eff.type # "SPLASH"

\* The loop of getCellBrightness from index i down to 1, entered with the
\* sum brightness; it breaks once the sum has reached 1.
RECURSIVE GlowLoop(_, _, _, _, _, _, _)
GlowLoop(effs, layer, i, r, c, t, brightness) ==
  IF i = 0 THEN brightness
  ELSE IF Skipped(effs[i], layer, r, c)
       THEN GlowLoop(effs, layer, i - 1, r, c, t, brightness)
       ELSE LET sum == brightness + Glow(effs[i], r, c, t)
            IN IF sum >= 1000 THEN sum
               ELSE GlowLoop(effs, layer, i - 1, r, c, t, sum)

\* getCellBrightness(r, c), for the state effs, layer at time t.
getCellBrightness(effs, layer, r, c, t) ==
  Min(1000, GlowLoop(effs, layer, Len(effs), r, c, t, 0))

\* ------------------------------------------------------------ host timers

\* The id the host gives a new request: the smallest one not in use.
FreshId(used) == CHOOSE n \in 1 .. (Cardinality(used) + 1) : n \notin used

Without(f, id) == [k \in DOMAIN f \ {id} |-> f[k]]

\* safeBpm and msPerBeat (microseconds) of the sequencer effect, and the
\* first time the interval created at time t is due.
NewTimer(tempo, t) ==
  LET safeBpm == Max(1, tempo)
      msPerBeat == ((60 * 1000 * 1000) \div safeBpm) \div 4
  IN [safeBpm |-> safeBpm, msPerBeat |-> msPerBeat, due |-> t * 1000 + msPerBeat]

TimerDue(id) == id \in DOMAIN timers /\ timers[id].due <= now * 1000
FrameDue(id) == id \in DOMAIN frames /\ frames[id] < now

\* Variant of SequencerEffect whose cleanup does not clear the interval.
SequencerEffectLeaking(playing, tempo, col) ==
  LET id == FreshId(DOMAIN timers)
  IN IF playing
     THEN /\ timers' = (id :> NewTimer(tempo, now)) @@ timers
          /\ intervalId' = id
          /\ currentCol' = col
     ELSE /\ timers' = timers
          /\ intervalId' = 0
          /\ currentCol' = -1

\* Variant of SequencerEffect that does not reset the column when stopped.
SequencerEffectKeepingCol(playing, tempo, col) ==
  LET cleaned == Without(timers, intervalId)
      id == FreshId(DOMAIN cleaned)
  IN IF playing
     THEN /\ timers' = (id :> NewTimer(tempo, now)) @@ cleaned
          /\ intervalId' = id
          /\ currentCol' = col
     ELSE /\ timers' = cleaned
          /\ intervalId' = 0
          /\ currentCol' = col

\* Variant of SequencerEffect that, run again while an interval exists, only
\* clears it.
SequencerEffectClearing(playing, tempo, col) ==
  LET cleaned == Without(timers, intervalId)
      id == FreshId(DOMAIN cleaned)
  IN IF playing /\ intervalId = 0
     THEN /\ timers' = (id :> NewTimer(tempo, now)) @@ cleaned
          /\ intervalId' = id
          /\ currentCol' = col
     ELSE /\ timers' = cleaned
          /\ intervalId' = 0
          /\ currentCol' = IF playing THEN col ELSE -1

\* Variant of SequencerEffect whose new interval has the period of the tempo
\* stored before.
SequencerEffectStaleTempo(playing, tempo, col) ==
  LET cleaned == Without(timers, intervalId)
      id == FreshId(DOMAIN cleaned)
  IN IF playing
     THEN /\ timers' = (id :> NewTimer(bpm, now)) @@ cleaned
          /\ intervalId' = id
          /\ currentCol' = col
     ELSE /\ timers' = cleaned
          /\ intervalId' = 0
          /\ currentCol' = -1

\* The sequencer useEffect, run because one of its dependencies changed:
\* the cleanup of the previous run, then the body with the new isPlaying,
\* bpm and current column.
SequencerEffect(playing, tempo, col) ==
  LET cleaned == Without(timers, intervalId)
      id == FreshId(DOMAIN cleaned)
  IN IF playing
     THEN /\ timers' = (id :> NewTimer(tempo, now)) @@ cleaned
          /\ intervalId' = id
          /\ currentCol' = col
     ELSE /\ timers' = cleaned
          /\ intervalId' = 0
          /\ currentCol' = -1

\* Variant of PhysicsEffect whose cleanup does not cancel the pending request.
PhysicsEffectNoCancel(newLen, pending, ref) ==
  LET id == FreshId(DOMAIN pending)
  IN IF newLen > 0
     THEN /\ frames' = (id :> now) @@ pending
          /\ requestRef' = id
     ELSE /\ frames' = pending
          /\ requestRef' = ref

\* The physics useEffect, run because effects.length changed to newLen, with
\* the requests pending and the ref as the handler left them.
PhysicsEffect(newLen, pending, ref) ==
  LET cleaned == IF ref # 0 THEN Without(pending, ref) ELSE pending
      id == FreshId(DOMAIN cleaned)
  IN IF newLen > 0
     THEN /\ frames' = (id :> now) @@ cleaned
          /\ requestRef' = id
     ELSE /\ frames' = cleaned
          /\ requestRef' = ref

\* ------------------------------------------------------------ handlers

\* handleStart
HandleStart ==
  /\ engineRef' = EngineInit(engineRef, host, contexts)
  /\ contexts' = ContextsInit(engineRef, host, contexts)
  /\ isPlaying' = ~isPlaying
  /\ SequencerEffect(~isPlaying, bpm, currentCol)
  /\ lastOp' = <<"handleStart">>
  /\ UNCHANGED <<grids, layerEffects, layerVolumes, activeLayerIdx, bpm, isMouseDown,
                 effects, lastTouchedRef, requestRef, frames, calls, voices, host, now, passes>>

\* Variant of ClearedGrids that empties every layer.
ClearedGridsAll(gs, layer) == [i \in DOMAIN gs |-> EmptyLayer]

\* The grids after handleClear.
ClearedGrids(gs, layer) ==
  IF layer \in DOMAIN gs THEN [gs EXCEPT ![layer] = EmptyLayer] ELSE gs

\* handleClear
HandleClear ==
  /\ grids' = ClearedGrids(grids, activeLayerIdx)
  /\ SequencerEffect(isPlaying, bpm, currentCol)
  /\ lastOp' = <<"handleClear">>
  /\ UNCHANGED <<layerEffects, layerVolumes, activeLayerIdx, isPlaying, bpm, isMouseDown,
                 effects, lastTouchedRef, requestRef, frames, engineRef, contexts, calls, voices, host,
                 now, passes>>

\* changeLayerEffect(newEffect)
ChangeLayerEffect(newEffect) ==
  /\ layerEffects' = IF activeLayerIdx >= 0 /\ activeLayerIdx < Cardinality(DOMAIN layerEffects)
                     THEN [layerEffects EXCEPT ![activeLayerIdx] = newEffect]
                     ELSE layerEffects
  /\ SequencerEffect(isPlaying, bpm, currentCol)
  /\ lastOp' = <<"changeLayerEffect">>
  /\ UNCHANGED <<grids, layerVolumes, activeLayerIdx, isPlaying, bpm, isMouseDown,
                 effects, lastTouchedRef, requestRef, frames, engineRef, contexts, calls, voices, host,
                 now, passes>>

\* Variant of HandleVolumeChange that sets the volume of every layer.
HandleVolumeChangeAll(newVol) ==
  /\ layerVolumes' = [i \in DOMAIN layerVolumes |-> Clamp(newVol, 0, 1000)]
  /\ SequencerEffect(isPlaying, bpm, currentCol)
  /\ lastOp' = <<"handleVolumeChange">>
  /\ UNCHANGED <<grids, layerEffects, activeLayerIdx, isPlaying, bpm, isMouseDown,
                 effects, lastTouchedRef, requestRef, frames, engineRef, contexts, calls, voices, host,
                 now, passes>>

\* handleVolumeChange(newVol)
HandleVolumeChange(newVol) ==
  /\ layerVolumes' = IF activeLayerIdx >= 0 /\ activeLayerIdx < Cardinality(DOMAIN layerVolumes)
                     THEN [layerVolumes EXCEPT ![activeLayerIdx] = Clamp(newVol, 0, 1000)]
                     ELSE layerVolumes
  /\ SequencerEffect(isPlaying, bpm, currentCol)
  /\ lastOp' = <<"handleVolumeChange">>
  /\ UNCHANGED <<grids, layerEffects, activeLayerIdx, isPlaying, bpm, isMouseDown,
                 effects, lastTouchedRef, requestRef, frames, engineRef, contexts, calls, voices, host,
                 now, passes>>

\* Variant of ClampBpm without the lower limit.
ClampBpmAbove(val) == Min(MAX_BPM, val)

\* The value handleBpmChange stores for the slider value val.
ClampBpm(val) == Max(MIN_BPM, Min(MAX_BPM, val))

\* handleBpmChange: the sequencer effect runs only when the stored value changed.
HandleBpmChange(val) ==
  /\ bpm' = ClampBpm(val)
  /\ IF bpm' # bpm
     THEN SequencerEffect(isPlaying, bpm', currentCol)
     ELSE UNCHANGED <<timers, intervalId, currentCol>>
  /\ lastOp' = <<"handleBpmChange", val>>
  /\ UNCHANGED <<grids, layerEffects, layerVolumes, activeLayerIdx, isPlaying, isMouseDown,
                 effects, lastTouchedRef, requestRef, frames, engineRef, contexts, calls, voices, host,
                 now, passes>>

\* onClick of a layer tab: setActiveLayerIdx(idx)
SetActiveLayerIdx(idx) ==
  /\ activeLayerIdx' = idx
  /\ lastOp' = <<"setActiveLayerIdx">>
  /\ UNCHANGED <<grids, layerEffects, layerVolumes, isPlaying, currentCol, bpm, isMouseDown,
                 effects, lastTouchedRef, requestRef, frames, timers, intervalId, engineRef, contexts,
                 calls, voices, host, now, passes>>

\* ------------------------------------------------------------ input handlers

\* Variant of toggleCell that switches the cell on whatever it was.
toggleCellOn(gs, layer, r, c) ==
  IF layer \in DOMAIN gs /\ r \in DOMAIN gs[layer]
  THEN [gs EXCEPT ![layer][r] =
          IF c \in DOMAIN @ THEN [@ EXCEPT ![c] = TRUE] ELSE (c :> TRUE) @@ @]
  ELSE gs

\* The setGrids updater of toggleCell(r, c): newLayer[r][c] = !newLayer[r][c]
\* when row r exists; an index outside the row reads undefined and is written true.
toggleCell(gs, layer, r, c) ==
  IF layer \in DOMAIN gs /\ r \in DOMAIN gs[layer]
  THEN [gs EXCEPT ![layer][r] =
          IF c \in DOMAIN @ THEN [@ EXCEPT ![c] = ~@] ELSE (c :> TRUE) @@ @]
  ELSE gs

\* Variant of paintCell that inverts the cell.
paintCellInverting(gs, layer, r, c) ==
  IF layer \in DOMAIN gs /\ r \in DOMAIN gs[layer] /\ c \in DOMAIN gs[layer][r]
  THEN [gs EXCEPT ![layer][r][c] = ~@]
  ELSE gs

\* The setGrids updater of handleMouseEnter and handleTouchMove: the cell is
\* written only when it reads exactly false.
paintCell(gs, layer, r, c) ==
  IF /\ layer \in DOMAIN gs
     /\ r \in DOMAIN gs[layer]
     /\ c \in DOMAIN gs[layer][r]
     /\ gs[layer][r][c] = FALSE
  THEN [gs EXCEPT ![layer][r][c] = TRUE]
  ELSE gs

\* handleMouseDown (also onTouchStart) on the grid container.
HandleMouseDown ==
  /\ isMouseDown' = TRUE
  /\ lastTouchedRef' = NoCell
  /\ engineRef' = EngineInit(engineRef, host, contexts)
  /\ contexts' = ContextsInit(engineRef, host, contexts)
  /\ lastOp' = <<"handleMouseDown">>
  /\ UNCHANGED <<grids, layerEffects, layerVolumes, activeLayerIdx, isPlaying, currentCol,
                 bpm, effects, requestRef, frames, timers, intervalId, calls, voices, host, now,
                 passes>>

\* handleMouseUp (also onMouseLeave, onTouchEnd)
HandleMouseUp ==
  /\ isMouseDown' = FALSE
  /\ lastTouchedRef' = NoCell
  /\ lastOp' = <<"handleMouseUp">>
  /\ UNCHANGED <<grids, layerEffects, layerVolumes, activeLayerIdx, isPlaying, currentCol,
                 bpm, effects, requestRef, frames, timers, intervalId, engineRef, contexts, calls, voices,
                 host, now, passes>>

\* A mouse press on cell (r, c): the cell's onMouseDown, toggleCell(r, c), then,
\* as the event bubbles, the container's handleMouseDown.
CellMouseDown(r, c) ==
  /\ grids' = toggleCell(grids, activeLayerIdx, r, c)
  /\ SequencerEffect(isPlaying, bpm, currentCol)
  /\ isMouseDown' = TRUE
  /\ lastTouchedRef' = NoCell
  /\ engineRef' = EngineInit(engineRef, host, contexts)
  /\ contexts' = ContextsInit(engineRef, host, contexts)
  /\ lastOp' = <<"toggleCell", r, c>>
  /\ UNCHANGED <<layerEffects, layerVolumes, activeLayerIdx, isPlaying, bpm, effects,
                 requestRef, frames, calls, voices, host, now, passes>>

\* handleMouseEnter(r, c): nothing unless the button is down and the cell is not
\* the one last touched; setGrids then always stores a new array, so the
\* sequencer effect runs.
HandleMouseEnter(r, c) ==
  /\ IF isMouseDown /\ lastTouchedRef # <<r, c>>
     THEN /\ grids' = paintCell(grids, activeLayerIdx, r, c)
          /\ SequencerEffect(isPlaying, bpm, currentCol)
          /\ lastTouchedRef' = <<r, c>>
     ELSE UNCHANGED <<grids, timers, intervalId, currentCol, lastTouchedRef>>
  /\ lastOp' = <<"handleMouseEnter", r, c>>
  /\ UNCHANGED <<layerEffects, layerVolumes, activeLayerIdx, isPlaying, bpm, isMouseDown,
                 effects, requestRef, frames, engineRef, contexts, calls, voices, host, now, passes>>

\* handleTouchMove over the element of cell (r, c): setGrids returns the
\* previous array when the cell is not painted, and no effect runs then.
HandleTouchMove(r, c) ==
  /\ IF lastTouchedRef # <<r, c>>
     THEN /\ grids' = paintCell(grids, activeLayerIdx, r, c)
          /\ IF grids' # grids
             THEN SequencerEffect(isPlaying, bpm, currentCol)
             ELSE UNCHANGED <<timers, intervalId, currentCol>>
          /\ lastTouchedRef' = <<r, c>>
     ELSE UNCHANGED <<grids, timers, intervalId, currentCol, lastTouchedRef>>
  /\ lastOp' = <<"handleTouchMove", r, c>>
  /\ UNCHANGED <<layerEffects, layerVolumes, activeLayerIdx, isPlaying, bpm, isMouseDown,
                 effects, requestRef, frames, engineRef, contexts, calls, voices, host, now, passes>>

\* ------------------------------------------------------------ the two drivers

\* Variant of FiringCells whose row loop stops one row early.
FiringCellsShort(gs, col) ==
  LET all == [k \in 1 .. (4 * ROWS) |-> <<(k - 1) \div ROWS, (k - 1) % ROWS>>]
  IN SelectSeq(all, LAMBDA lr : /\ lr[1] \in DOMAIN gs
                                /\ lr[2] < ROWS - 1
                                /\ CellAt(gs[lr[1]], lr[2], col))

\* The cells the interval callback fires at column col, in the order of its
\* loops: layers 0 .. 3, rows 0 .. ROWS-1 within a layer.
FiringCells(gs, col) ==
  LET all == [k \in 1 .. (4 * ROWS) |-> <<(k - 1) \div ROWS, (k - 1) % ROWS>>]
  IN SelectSeq(all, LAMBDA lr : lr[1] \in DOMAIN gs /\ CellAt(gs[lr[1]], lr[2], col))

\* layerVolumes[idx] !== undefined ? layerVolumes[idx] : 0.8
VolumeOf(vols, idx) == IF idx \in DOMAIN vols THEN vols[idx] ELSE 800

\* The effect collection after the addVisualEffect updaters of the cells
\* lo .. hi of the callback, applied in order to prev. The range is halved and
\* the first half evaluated (its length taken) before the second, which keeps
\* the evaluation shallow.
RECURSIVE AddedEffects(_, _, _, _, _, _, _)
AddedEffects(prev, cells, lo, hi, col, t, seed) ==
  IF lo > hi THEN prev
  ELSE IF lo = hi
       THEN addVisualEffect(prev, cells[lo][2], col, layerEffects[cells[lo][1]],
                            LAYERS_CONFIG[cells[lo][1]].color, cells[lo][1], t, seed)
       ELSE LET mid == (lo + hi) \div 2
                first == AddedEffects(prev, cells, lo, mid, col, t, seed)
            IN IF Len(first) >= 0
               THEN AddedEffects(first, cells, mid + 1, hi, col, t, seed)
               ELSE first

\* Variant of NextCol without the wrap at COLS.
NextColNoWrap(prev) == prev + 1

\* const nextCol = (prev + 1) % CONSTANTS.COLS
NextCol(prev) == JsRem(prev + 1, COLS)

\* Variant of Tick that switches off the cells it fires.
TickConsuming(seed) ==
  /\ \E id \in DOMAIN timers :
       /\ TimerDue(id)
       /\ timers' = [timers EXCEPT ![id].due = now * 1000 + timers[id].msPerBeat]
  /\ LET nextCol == NextCol(currentCol)
         cells == FiringCells(grids, nextCol)
     IN /\ currentCol' = nextCol
        /\ grids' = [i \in DOMAIN grids |->
                       [r \in DOMAIN grids[i] |->
                          [c \in DOMAIN grids[i][r] |-> grids[i][r][c] /\ c # nextCol]]]
        /\ calls' = [k \in 1 .. Len(cells) |->
                       ToneCall(cells[k][2], LAYERS_CONFIG[cells[k][1]],
                                VolumeOf(layerVolumes, cells[k][1]))]
        /\ effects' = AddedEffects(effects, cells, 1, Len(cells), nextCol, now, seed)
        /\ passes' = passes \o [k \in 1 .. (Len(effects') - Len(effects)) |-> 0]
        /\ IF Len(effects') # Len(effects)
           THEN PhysicsEffect(Len(effects'), frames, requestRef)
           ELSE UNCHANGED <<frames, requestRef>>
  /\ engineRef' = getEngine(engineRef)
  /\ voices' = VoicesOf(engineRef'[1], calls', 1, Len(calls'))
  /\ lastOp' = <<"tick">>
  /\ UNCHANGED <<layerEffects, layerVolumes, activeLayerIdx, isPlaying, bpm,
                 isMouseDown, lastTouchedRef, intervalId, contexts, host, now>>

\* Variant of Tick whose capacity test guards the whole cell: a cell that
\* fires at capacity triggers no tone either.
TickGuarded(seed) ==
  /\ \E id \in DOMAIN timers :
       /\ TimerDue(id)
       /\ timers' = [timers EXCEPT ![id].due = now * 1000 + timers[id].msPerBeat]
  /\ LET nextCol == NextCol(currentCol)
         cells == FiringCells(grids, nextCol)
     IN /\ currentCol' = nextCol
        /\ calls' = [k \in 1 .. Min(Len(cells), MAX_EFFECTS - Len(effects)) |->
                       ToneCall(cells[k][2], LAYERS_CONFIG[cells[k][1]],
                                VolumeOf(layerVolumes, cells[k][1]))]
        /\ effects' = AddedEffects(effects, cells, 1, Len(cells), nextCol, now, seed)
        /\ passes' = passes \o [k \in 1 .. (Len(effects') - Len(effects)) |-> 0]
        /\ IF Len(effects') # Len(effects)
           THEN PhysicsEffect(Len(effects'), frames, requestRef)
           ELSE UNCHANGED <<frames, requestRef>>
  /\ engineRef' = getEngine(engineRef)
  /\ voices' = VoicesOf(engineRef'[1], calls', 1, Len(calls'))
  /\ lastOp' = <<"tick">>
  /\ UNCHANGED <<grids, layerEffects, layerVolumes, activeLayerIdx, isPlaying, bpm,
                 isMouseDown, lastTouchedRef, intervalId, contexts, host, now>>

\* The setInterval callback of the sequencer effect; seed stands for the
\* values Math.random() returns to it.
Tick(seed) ==
  /\ \E id \in DOMAIN timers :
       /\ TimerDue(id)
       /\ timers' = [timers EXCEPT ![id].due = now * 1000 + timers[id].msPerBeat]
  /\ LET nextCol == NextCol(currentCol)
         cells == FiringCells(grids, nextCol)
     IN /\ currentCol' = nextCol
        /\ calls' = [k \in 1 .. Len(cells) |->
                       ToneCall(cells[k][2], LAYERS_CONFIG[cells[k][1]],
                                VolumeOf(layerVolumes, cells[k][1]))]
        /\ effects' = AddedEffects(effects, cells, 1, Len(cells), nextCol, now, seed)
        /\ passes' = passes \o [k \in 1 .. (Len(effects') - Len(effects)) |-> 0]
        /\ IF Len(effects') # Len(effects)
           THEN PhysicsEffect(Len(effects'), frames, requestRef)
           ELSE UNCHANGED <<frames, requestRef>>
  /\ engineRef' = getEngine(engineRef)
  /\ voices' = VoicesOf(engineRef'[1], calls', 1, Len(calls'))
  /\ lastOp' = <<"tick">>
  /\ UNCHANGED <<grids, layerEffects, layerVolumes, activeLayerIdx, isPlaying, bpm,
                 isMouseDown, lastTouchedRef, intervalId, contexts, host, now>>

\* One animation frame: the updatePhysics callback of request id, which
\* requests the next frame; then the physics effect if effects.length changed.
PhysicsFrame ==
  \E id \in DOMAIN frames :
    /\ FrameDue(id)
    /\ LET fired == Without(frames, id)
           next == FreshId(DOMAIN fired)
           pending == (next :> now) @@ fired
       IN /\ effects' = updatePhysics(effects, now)
          /\ passes' = PassesAfter(effects, passes, now)
          /\ IF Len(effects') # Len(effects)
             THEN PhysicsEffect(Len(effects'), pending, next)
             ELSE frames' = pending /\ requestRef' = next
    /\ lastOp' = <<"frame">>
    /\ UNCHANGED <<grids, layerEffects, layerVolumes, activeLayerIdx, isPlaying, currentCol,
                   bpm, isMouseDown, lastTouchedRef, timers, intervalId, engineRef, contexts, calls, voices,
                   host>>
    /\ UNCHANGED now

\* Time passes: no interval callback and no animation frame is overdue.
AdvanceTime(steps) ==
  /\ now + TimeStepMs <= steps * TimeStepMs
  /\ \A id \in DOMAIN timers : ~TimerDue(id)
  /\ \A id \in DOMAIN frames : ~FrameDue(id)
  /\ now' = now + TimeStepMs
  /\ lastOp' = <<"time">>
  /\ UNCHANGED <<grids, layerEffects, layerVolumes, activeLayerIdx, isPlaying, currentCol,
                 bpm, isMouseDown, effects, lastTouchedRef, requestRef, frames, timers,
                 intervalId, engineRef, contexts, calls, voices, host, passes>>

\* ------------------------------------------------------------ specification

\* The mounted component showing pattern gs at tempo tempo, on a host whose
\* audio subsystem is h.
MountedOn(gs, tempo, h) ==
  /\ grids = gs
  /\ layerEffects = [i \in LayerIdx |->
                       CASE i = 0 -> "RIPPLE" [] i = 1 -> "GRAVITY"
                         [] i = 2 -> "SPLASH" [] i = 3 -> "STAR"]
  /\ layerVolumes = [i \in LayerIdx |-> 800]
  /\ activeLayerIdx = 0
  /\ isPlaying = FALSE
  /\ currentCol = -1
  /\ bpm = tempo
  /\ isMouseDown = FALSE
  /\ effects = <<>>
  /\ lastTouchedRef = NoCell
  /\ requestRef = 0
  /\ frames = <<>>
  /\ timers = <<>>
  /\ intervalId = 0
  /\ engineRef = <<>>
  /\ contexts = <<>>
  /\ calls = <<>>
  /\ voices = <<>>
  /\ host = h
  /\ now = 0
  /\ passes = <<>>
  /\ userOps = 0
  /\ lastOp = <<"mount">>

\* The mounted component on a host with a working audio subsystem.
MountedWith(gs, tempo) == MountedOn(gs, tempo, "ok")

\* A pattern reached from the empty grids by six presses: cells in three layers.
PresetGrids ==
  [i \in LayerIdx |->
     CASE i = 0 -> [EmptyLayer EXCEPT ![10][0] = TRUE, ![10][3] = TRUE]
       [] i = 1 -> [EmptyLayer EXCEPT ![15][0] = TRUE, ![15][1] = TRUE]
       [] i = 2 -> [EmptyLayer EXCEPT ![0][0] = TRUE, ![12][1] = TRUE]
       [] OTHER -> EmptyLayer]

\* The mounted component, with the empty pattern or with the preset one.
Init == \E gs \in {[i \in LayerIdx |-> EmptyLayer], PresetGrids} : MountedWith(gs, DEFAULT_BPM)

\* The inputs of Spec.
InputCells == {<<10, 0>>, <<15, 1>>}
InputVolumes == {-5000, 500, 5000}
InputBpm == {-10, 90, 1000}
Seeds == {700}

\* A user operation, counted.
User(A) == userOps < MaxUserOps /\ A /\ userOps' = userOps + 1
\* A step of one of the two drivers, or of the clock.
Host(A) == A /\ UNCHANGED userOps

Next ==
  \/ User(HandleStart)
  \/ User(HandleClear)
  \/ \E e \in EFFECT_TYPES : User(ChangeLayerEffect(e))
  \/ \E v \in InputVolumes : User(HandleVolumeChange(v))
  \/ \E x \in InputBpm : User(HandleBpmChange(x))
  \/ \E i \in LayerIdx : User(SetActiveLayerIdx(i))
  \/ \E rc \in InputCells : User(CellMouseDown(rc[1], rc[2]))
  \/ \E seed \in Seeds : Host(Tick(seed))
  \/ Host(PhysicsFrame)
  \/ Host(AdvanceTime(MaxSteps))

Spec == Init /\ [][Next]_vars

\* ------------------------------------------------------------ playback

\* The pattern of SpecRun: the cell (10, 3) of layer 0, and a cell of every
\* layer, so of every archetype, in columns 0 and 15.
RunGrids ==
  [i \in LayerIdx |->
     CASE i = 0 -> [EmptyLayer EXCEPT ![10][3] = TRUE, ![2][15] = TRUE]
       [] i = 1 -> [EmptyLayer EXCEPT ![10][0] = TRUE]
       [] i = 2 -> [EmptyLayer EXCEPT ![5][0] = TRUE]
       [] OTHER -> [EmptyLayer EXCEPT ![8][15] = TRUE]]

InitRun == MountedWith(RunGrids, DEFAULT_BPM)

\* Play is pressed once, at any time, and the pattern is left to run.
Play == ~isPlaying /\ HandleStart

NextRun ==
  \/ Host(Play)
  \/ \E seed \in Seeds : Host(Tick(seed))
  \/ Host(PhysicsFrame)
  \/ Host(AdvanceTime(MaxRunSteps))

SpecRun == InitRun /\ [][NextRun]_vars

\* ------------------------------------------------------------ capacity

\* Every cell of every layer active: each tick fires 4 * ROWS cells.
FullGrids == [i \in LayerIdx |-> [r \in RowIdx |-> [c \in ColIdx |-> TRUE]]]

\* The full pattern at the fastest tempo, stopped.
InitCap == MountedWith(FullGrids, MAX_BPM)

NextCap ==
  \/ User(HandleStart)
  \/ User(HandleClear)
  \/ \E seed \in Seeds : Host(Tick(seed))
  \/ Host(PhysicsFrame)
  \/ Host(AdvanceTime(MaxCapSteps))

SpecCap == InitCap /\ [][NextCap]_vars


\* ------------------------------------------------------------ one falling effect

\* The origin rows (milli) of the GRAVITY effect followed: rows of the grid,
\* a row just above the floor, the floor itself and a row below it.
Origins == {0, 10000, 15000, 15499, 15500, 16000}

\* The effect is followed for at most MaxBallPasses simulation passes.
MaxBallPasses == 40

\* A GRAVITY effect as addVisualEffect creates it, with origin row origin
\* (milli): effects holds this one effect, its row in milli, and whether the
\* latest pass kept it.
InitGravity ==
  /\ \E origin \in Origins :
       effects = <<[type |-> "GRAVITY", origin |-> origin, y |-> origin, dy |-> 0,
                    keep |-> TRUE]>>
  /\ passes = <<0>>
  /\ grids = [i \in LayerIdx |-> EmptyLayer]
  /\ layerEffects = [i \in LayerIdx |-> "GRAVITY"]
  /\ layerVolumes = [i \in LayerIdx |-> 800]
  /\ activeLayerIdx = 0
  /\ isPlaying = FALSE
  /\ currentCol = -1
  /\ bpm = DEFAULT_BPM
  /\ isMouseDown = FALSE
  /\ lastTouchedRef = NoCell
  /\ requestRef = 0
  /\ frames = <<>>
  /\ timers = <<>>
  /\ intervalId = 0
  /\ engineRef = <<>>
  /\ contexts = <<>>
  /\ calls = <<>>
  /\ voices = <<>>
  /\ host = "ok"
  /\ now = 0
  /\ userOps = 0
  /\ lastOp = <<"created">>

\* One pass of the GRAVITY branch over the effect, while it is kept.
GravityPass ==
  /\ effects[1].keep
  /\ passes[1] < MaxBallPasses
  /\ LET s == GravityStep(effects[1].y, effects[1].dy, effects[1].origin)
     IN effects' = <<[effects[1] EXCEPT !.y = s.y, !.dy = s.dy, !.keep = ~s.stop]>>
  /\ passes' = <<passes[1] + 1>>
  /\ lastOp' = <<"gravityPass">>
  /\ UNCHANGED <<grids, layerEffects, layerVolumes, activeLayerIdx, isPlaying, currentCol,
                 bpm, isMouseDown, lastTouchedRef, requestRef, frames, timers, intervalId,
                 engineRef, contexts, calls, voices, host, now, userOps>>

NextGravity == GravityPass

SpecGravity == InitGravity /\ [][NextGravity]_vars


\* ------------------------------------------------------------ the audio engine

\* The hosts: a working audio subsystem, none, one whose AudioContext
\* constructor throws, one whose node construction throws.
Hosts == {"ok", "unsupported", "throwsNew", "throwsChain"}

\* The arguments of the triggers.
InputRows == {-1, 0, 9, 15, 16}
InputTypes == {"sine", "square", "triangle", "drum", "noise"}

\* At most MaxDevices AudioContext objects are constructed in a behaviour.
MaxDevices == 2

InitEngineSpec == \E h \in Hosts : MountedOn([i \in LayerIdx |-> EmptyLayer], DEFAULT_BPM, h)

\* What the engine actions leave alone.
ComponentUnchanged ==
  UNCHANGED <<grids, layerEffects, layerVolumes, activeLayerIdx, isPlaying, currentCol,
              bpm, isMouseDown, effects, lastTouchedRef, requestRef, frames, timers,
              intervalId, host, now, passes>>

\* getEngine().init()
EngineInitCall ==
  /\ Len(ContextsInit(engineRef, host, contexts)) <= MaxDevices
  /\ engineRef' = EngineInit(engineRef, host, contexts)
  /\ contexts' = ContextsInit(engineRef, host, contexts)
  /\ lastOp' = <<"init">>
  /\ UNCHANGED <<calls, voices>>
  /\ ComponentUnchanged

\* getEngine().dispose()
EngineDispose ==
  /\ LET d == DisposeEngine(getEngine(engineRef)[1], contexts)
     IN /\ engineRef' = <<d.engine>>
        /\ contexts' = d.contexts
  /\ lastOp' = <<"dispose">>
  /\ UNCHANGED <<calls, voices>>
  /\ ComponentUnchanged

\* getEngine().playTone(row, layerType, 0, rawVolume)
EnginePlayTone(row, layerType, rawVolume) ==
  /\ engineRef' = getEngine(engineRef)
  /\ calls' = <<[row |-> row, layerType |-> layerType, baseOctave |-> 0,
                 rawVolume |-> rawVolume]>>
  /\ voices' = playTone(engineRef'[1], row, layerType, 0, rawVolume)
  /\ lastOp' = <<"playTone">>
  /\ UNCHANGED contexts
  /\ ComponentUnchanged

\* getEngine().playDrum(row, rawVolume)
EnginePlayDrum(row, rawVolume) ==
  /\ engineRef' = getEngine(engineRef)
  /\ calls' = <<[row |-> row, rawVolume |-> rawVolume]>>
  /\ voices' = playDrum(engineRef'[1], row, rawVolume)
  /\ lastOp' = <<"playDrum">>
  /\ UNCHANGED contexts
  /\ ComponentUnchanged

\* The host suspends the running context of the engine.
HostSuspends ==
  /\ engineRef # <<>>
  /\ engineRef[1].ctx # Null
  /\ contexts[engineRef[1].ctx] = "running"
  /\ contexts' = [contexts EXCEPT ![engineRef[1].ctx] = "suspended"]
  /\ lastOp' = <<"suspend">>
  /\ UNCHANGED <<engineRef, calls, voices>>
  /\ ComponentUnchanged

\* A call of the engine's interface, or a user operation that is not counted.
Call(A) == A /\ UNCHANGED userOps

NextEngine ==
  \/ Call(EngineInitCall)
  \/ Call(EngineDispose)
  \/ \E row \in InputRows, type \in InputTypes, v \in InputVolumes :
       Call(EnginePlayTone(row, type, v))
  \/ \E row \in InputRows, v \in InputVolumes : Call(EnginePlayDrum(row, v))
  \/ Call(HostSuspends)
  \/ \E v \in InputVolumes : Call(HandleVolumeChange(v))

SpecEngine == InitEngineSpec /\ [][NextEngine]_vars


\* ------------------------------------------------------------ playback without audio

\* Date.now() advances MaxSilentSteps times in SpecSilent.
MaxSilentSteps == 8

\* The pattern of SpecRun on any host, stopped.
InitSilent == \E h \in Hosts : MountedOn(RunGrids, DEFAULT_BPM, h)

NextSilent ==
  \/ Host(Play)
  \/ Call(EngineDispose)
  \/ Call(EnginePlayDrum(9, 500))
  \/ \E seed \in Seeds : Host(Tick(seed))
  \/ Host(PhysicsFrame)
  \/ Host(AdvanceTime(MaxSilentSteps))

SpecSilent == InitSilent /\ [][NextSilent]_vars


\* ------------------------------------------------------------ painting

\* The cells pressed, entered and touched in SpecPaint: in the preset pattern
\* (10, 0) is active in layer 0 only and (10, 1) is inactive.
PaintCells == {<<10, 0>>, <<10, 1>>}

NextPaint ==
  \/ User(HandleMouseDown)
  \/ User(HandleMouseUp)
  \/ \E rc \in PaintCells : User(CellMouseDown(rc[1], rc[2]))
  \/ \E rc \in PaintCells : User(HandleMouseEnter(rc[1], rc[2]))
  \/ \E rc \in PaintCells : User(HandleTouchMove(rc[1], rc[2]))
  \/ User(SetActiveLayerIdx(1))
  \/ Host(Play)
  \/ \E seed \in Seeds : Host(Tick(seed))
  \/ Host(PhysicsFrame)
  \/ Host(AdvanceTime(MaxSteps))

SpecPaint == MountedWith(PresetGrids, DEFAULT_BPM) /\ [][NextPaint]_vars


\* ------------------------------------------------------------ any cell arguments

\* toggleCell(r, c) called on its own, with any integers.
ToggleCell(r, c) ==
  /\ grids' = toggleCell(grids, activeLayerIdx, r, c)
  /\ SequencerEffect(isPlaying, bpm, currentCol)
  /\ lastTouchedRef' = <<r, c>>
  /\ lastOp' = <<"toggleCell", r, c>>
  /\ UNCHANGED <<layerEffects, layerVolumes, activeLayerIdx, isPlaying, bpm, isMouseDown,
                 effects, requestRef, frames, engineRef, contexts, calls, voices, host,
                 now, passes>>

\* Cell arguments inside and outside the 16 x 16 grid.
ArgCells == {<<10, 1>>, <<-1, 3>>, <<16, 0>>, <<3, -1>>, <<3, 16>>}

NextArgs ==
  \/ User(HandleMouseDown)
  \/ \E rc \in ArgCells : User(ToggleCell(rc[1], rc[2]))
  \/ \E rc \in ArgCells : User(HandleMouseEnter(rc[1], rc[2]))
  \/ \E rc \in ArgCells : User(HandleTouchMove(rc[1], rc[2]))
  \/ Host(Play)
  \/ \E seed \in Seeds : Host(Tick(seed))
  \/ Host(PhysicsFrame)
  \/ Host(AdvanceTime(MaxSteps))

SpecArgs == MountedWith(PresetGrids, DEFAULT_BPM) /\ [][NextArgs]_vars


\* ------------------------------------------------------------ effects that fade

\* A pattern whose effects are all time-driven: a RIPPLE cell in column 0 and
\* a STAR cell in column 1.
FadeGrids ==
  [i \in LayerIdx |->
     CASE i = 0 -> [EmptyLayer EXCEPT ![10][0] = TRUE]
       [] i = 3 -> [EmptyLayer EXCEPT ![8][1] = TRUE]
       [] OTHER -> EmptyLayer]

\* Time runs for MaxFadeSteps steps: long enough for the effects of a run to
\* be created, fade and be removed, and for a second run to start.
MaxFadeSteps == 16

InitFade == MountedWith(FadeGrids, DEFAULT_BPM)

NextFade ==
  \/ User(HandleStart)
  \/ \E seed \in Seeds : Host(Tick(seed))
  \/ Host(PhysicsFrame)
  \/ Host(AdvanceTime(MaxFadeSteps))

SpecFade == InitFade /\ [][NextFade]_vars


\* ------------------------------------------------------------ shutdown

\* Variant of Disposal in which the sequencer effect has no cleanup.
DisposalLeakingTimer ==
  /\ frames' = IF requestRef # 0 THEN Without(frames, requestRef) ELSE frames
  /\ IF engineRef # <<>>
     THEN LET d == DisposeEngine(engineRef[1], contexts)
          IN engineRef' = <<d.engine>> /\ contexts' = d.contexts
     ELSE UNCHANGED <<engineRef, contexts>>
  /\ timers' = timers
  /\ UNCHANGED <<grids, layerEffects, layerVolumes, activeLayerIdx, isPlaying, currentCol,
                 bpm, isMouseDown, effects, lastTouchedRef, requestRef, intervalId,
                 calls, voices, host, now, passes, userOps>>

\* The cleanups React runs when the component unmounts, in the order of the
\* effects: the physics effect's (cancel the request requestRef names), the
\* unmount effect's (cancel it again, dispose the engine if one was created)
\* and the sequencer effect's (clear the interval if one was created).
Disposal ==
  /\ frames' = IF requestRef # 0 THEN Without(frames, requestRef) ELSE frames
  /\ IF engineRef # <<>>
     THEN LET d == DisposeEngine(engineRef[1], contexts)
          IN engineRef' = <<d.engine>> /\ contexts' = d.contexts
     ELSE UNCHANGED <<engineRef, contexts>>
  /\ timers' = IF intervalId # 0 THEN Without(timers, intervalId) ELSE timers
  /\ UNCHANGED <<grids, layerEffects, layerVolumes, activeLayerIdx, isPlaying, currentCol,
                 bpm, isMouseDown, effects, lastTouchedRef, requestRef, intervalId,
                 calls, voices, host, now, passes, userOps>>

\* The component is mounted until it unmounts; lastOp records the unmount
\* and how many times the disposal steps have run (once or more than once).
IsMounted == lastOp[1] # "unmount"

\* A step of the mounted component.
Mounted(A) == IsMounted /\ A

\* The component unmounts.
Unmount == IsMounted /\ Disposal /\ lastOp' = <<"unmount", 1>>

\* The disposal steps run again on the unmounted component.
DisposeAgain == ~IsMounted /\ Disposal /\ lastOp' = <<"unmount", 2>>

\* Time runs for MaxUnmountSteps steps before the unmount.
MaxUnmountSteps == 6

\* The pattern of SpecRun on any host, stopped.
InitUnmount == \E h \in Hosts : MountedOn(RunGrids, DEFAULT_BPM, h)

NextUnmount ==
  \/ Mounted(User(HandleStart))
  \/ \E seed \in Seeds : Mounted(Host(Tick(seed)))
  \/ Mounted(Host(PhysicsFrame))
  \/ Mounted(Host(AdvanceTime(MaxUnmountSteps)))
  \/ Unmount
  \/ DisposeAgain

SpecUnmount == InitUnmount /\ [][NextUnmount]_vars


\* ------------------------------------------------------------ draining

\* One cell of every layer, so of every archetype, in column 0.
DrainGrids ==
  [i \in LayerIdx |->
     CASE i = 0 -> [EmptyLayer EXCEPT ![10][0] = TRUE]
       [] i = 1 -> [EmptyLayer EXCEPT ![10][0] = TRUE]
       [] i = 2 -> [EmptyLayer EXCEPT ![5][0] = TRUE]
       [] OTHER -> [EmptyLayer EXCEPT ![8][0] = TRUE]]

\* The play/pause control is used during the first MaxPlaySteps steps only.
\* The clock counts MaxDrainSteps steps, more than 3000 ms past the last
\* moment at which the sequencer can be stopped; a run left playing ends
\* there, and for a stopped sequencer time goes on (SlideTime).
MaxPlaySteps == 4
MaxDrainSteps == 38

InitDrain == MountedWith(DrainGrids, DEFAULT_BPM)

\* The play/pause control, pressed early.
Press == now <= MaxPlaySteps * TimeStepMs /\ HandleStart

DrainTick == \E seed \in Seeds : Host(Tick(seed))
DrainFrame == Host(PhysicsFrame)
DrainTime == Host(AdvanceTime(MaxDrainSteps))

\* Time passes beyond step MaxDrainSteps while the sequencer is stopped: the
\* origin of the clock moves instead of now, so every timestamp held becomes
\* one step older. Ages are exact up to MaxDrainSteps steps, which is beyond
\* both lifetimes (600 ms and 3000 ms), and an older age reads as that one.
SlideTime(steps) ==
  /\ ~isPlaying
  /\ now = steps * TimeStepMs
  /\ \A id \in DOMAIN timers : ~TimerDue(id)
  /\ \A id \in DOMAIN frames : ~FrameDue(id)
  /\ effects' = [k \in DOMAIN effects |->
                   [effects[k] EXCEPT !.startTime = Max(0, @ - TimeStepMs)]]
  /\ frames' = [id \in DOMAIN frames |-> Max(0, frames[id] - TimeStepMs)]
  /\ lastOp' = <<"time">>
  /\ UNCHANGED <<grids, layerEffects, layerVolumes, activeLayerIdx, isPlaying, currentCol,
                 bpm, isMouseDown, lastTouchedRef, requestRef, timers, intervalId,
                 engineRef, contexts, calls, voices, host, now, passes>>

DrainSlide == Host(SlideTime(MaxDrainSteps))

NextDrain ==
  \/ User(Press)
  \/ DrainTick
  \/ DrainFrame
  \/ DrainTime
  \/ DrainSlide

\* The host runs a due interval callback and a due animation frame, and time
\* passes.
SpecDrain ==
  /\ InitDrain
  /\ [][NextDrain]_vars
  /\ WF_vars(DrainTick)
  /\ WF_vars(DrainFrame)
  /\ WF_vars(DrainTime)
  /\ WF_vars(DrainSlide)


\* ------------------------------------------------------------ a full collection

\* The clock counts MaxFullSteps steps: at the fastest tempo the collection
\* is full three ticks after play is pressed, and every effect it then holds
\* can go through more than 51 simulation passes.
MaxFullSteps == 58

\* The stopped component with every cell of every layer active, the tempo at
\* its maximum and SPLASH chosen as the archetype of every layer.
InitFull ==
  /\ grids = FullGrids
  /\ layerEffects = [i \in LayerIdx |-> "SPLASH"]
  /\ layerVolumes = [i \in LayerIdx |-> 800]
  /\ activeLayerIdx = 3
  /\ isPlaying = FALSE
  /\ currentCol = -1
  /\ bpm = MAX_BPM
  /\ isMouseDown = FALSE
  /\ effects = <<>>
  /\ lastTouchedRef = NoCell
  /\ requestRef = 0
  /\ frames = <<>>
  /\ timers = <<>>
  /\ intervalId = 0
  /\ engineRef = <<>>
  /\ contexts = <<>>
  /\ calls = <<>>
  /\ voices = <<>>
  /\ host = "ok"
  /\ now = 0
  /\ passes = <<>>
  /\ userOps = 0
  /\ lastOp = <<"changeLayerEffect">>

\* Play is pressed once, during the first MaxPlaySteps steps.
FullPlay == Host(now <= MaxPlaySteps * TimeStepMs /\ Play)
FullTick == \E seed \in Seeds : Host(Tick(seed))
FullFrame == Host(PhysicsFrame)
FullTime == Host(AdvanceTime(MaxFullSteps))

NextFull ==
  \/ FullPlay
  \/ FullTick
  \/ FullFrame
  \/ FullTime

SpecFull == InitFull /\ [][NextFull]_vars


\* ------------------------------------------------------------ edits while running

\* The clock counts MaxEditSteps steps; then the origin of the clock moves
\* (SlideTime, SlideTimeRunning). The pattern is empty and the grid edit is
\* handleClear, so that no effect is created.
MaxEditSteps == 2

\* The volume and the archetype chosen, the tempi chosen.
EditVolume == 500
EditArchetype == "STAR"
EditBpm == {DEFAULT_BPM, MAX_BPM}

InitEdit == MountedWith([i \in LayerIdx |-> EmptyLayer], DEFAULT_BPM)

\* Time passes beyond step steps while the sequencer is running: the origin
\* of the clock moves instead of now, so every timestamp held, the due time
\* of the interval included, becomes one step older. An age beyond steps
\* steps reads as that one.
SlideTimeRunning(steps) ==
  /\ isPlaying
  /\ now = steps * TimeStepMs
  /\ \A id \in DOMAIN timers : ~TimerDue(id)
  /\ \A id \in DOMAIN frames : ~FrameDue(id)
  /\ effects' = [k \in DOMAIN effects |->
                   [effects[k] EXCEPT !.startTime = Max(0, @ - TimeStepMs)]]
  /\ frames' = [id \in DOMAIN frames |-> Max(0, frames[id] - TimeStepMs)]
  /\ timers' = [id \in DOMAIN timers |->
                  [timers[id] EXCEPT !.due = @ - TimeStepMs * 1000]]
  /\ lastOp' = <<"time">>
  /\ UNCHANGED <<grids, layerEffects, layerVolumes, activeLayerIdx, isPlaying, currentCol,
                 bpm, isMouseDown, lastTouchedRef, requestRef, intervalId,
                 engineRef, contexts, calls, voices, host, now, passes>>

\* An edit made while the sequencer is running.
Running(A) == isPlaying /\ Host(A)

EditStart == Host(HandleStart)
EditGrid == Running(HandleClear)
EditVolumeChange == Running(HandleVolumeChange(EditVolume))
EditLayerEffect == Running(ChangeLayerEffect(EditArchetype))
EditTempo == \E x \in EditBpm : Running(HandleBpmChange(x))
EditTick == \E seed \in Seeds : Host(Tick(seed))
EditTime == Host(AdvanceTime(MaxEditSteps))
EditSlide == Host(SlideTime(MaxEditSteps)) \/ Host(SlideTimeRunning(MaxEditSteps))

NextEdit ==
  \/ EditStart
  \/ EditGrid
  \/ EditVolumeChange
  \/ EditLayerEffect
  \/ EditTempo
  \/ EditTick
  \/ EditTime
  \/ EditSlide

\* The host runs a due interval callback, and time passes; the user is free
\* to act or not.
SpecEdit ==
  /\ InitEdit
  /\ [][NextEdit]_vars
  /\ WF_vars(EditTick)
  /\ WF_vars(EditTime)
  /\ WF_vars(EditSlide)


\* ------------------------------------------------------------ live voices

\* At most MaxVoices tone triggers come, during the first MaxPlaySteps steps;
\* the clock counts MaxVoiceSteps steps, more than 950 ms past the last of
\* them.
MaxVoices == 2
MaxVoiceSteps == 15

\* The arguments of the tone triggers.
VoiceRows == {9}
VoiceTypes == {"sine", "square", "triangle"}

InitVoices == MountedOn([i \in LayerIdx |-> EmptyLayer], DEFAULT_BPM, "ok")

\* getEngine().playTone(row, layerType, 0, rawVolume) at the time now of the
\* device's clock. In this specification voices holds the live voices: the
\* oscillators started (osc.start(now)) and not yet stopped, each with the
\* time start at which it was created.
VoiceTrigger(row, layerType, rawVolume) ==
  /\ now <= MaxPlaySteps * TimeStepMs
  /\ engineRef' = getEngine(engineRef)
  /\ calls' = <<[row |-> row, layerType |-> layerType, baseOctave |-> 0,
                 rawVolume |-> rawVolume]>>
  /\ LET created == playTone(engineRef'[1], row, layerType, 0, rawVolume)
     IN voices' = voices \o [k \in DOMAIN created |-> created[k] @@ [start |-> now]]
  /\ lastOp' = <<"playTone">>
  /\ UNCHANGED contexts
  /\ ComponentUnchanged

\* The time of osc.stop(now + duration + 0.05) has come for voice v.
StopDue(v) == v.start + v.stopAt <= now

\* The device stops the oscillators whose stop time has come.
VoicesStop ==
  /\ \E k \in DOMAIN voices : StopDue(voices[k])
  /\ LET Live(v) == ~StopDue(v)
     IN voices' = SelectSeq(voices, Live)
  /\ lastOp' = <<"stop">>
  /\ UNCHANGED <<engineRef, contexts, calls>>
  /\ ComponentUnchanged

\* The clock of the device advances; a stop that is due comes first.
VoiceTime ==
  /\ \A k \in DOMAIN voices : ~StopDue(voices[k])
  /\ AdvanceTime(MaxVoiceSteps)

\* A trigger, counted.
Triggered(A) == userOps < MaxVoices /\ A /\ userOps' = userOps + 1

NextVoices ==
  \/ Call(EngineInitCall)
  \/ \E row \in VoiceRows, type \in VoiceTypes : Triggered(VoiceTrigger(row, type, 800))
  \/ Host(VoicesStop)
  \/ Host(VoiceTime)

\* The device runs: its clock advances and it stops an oscillator at the
\* time scheduled.
SpecVoices ==
  /\ InitVoices
  /\ [][NextVoices]_vars
  /\ WF_vars(Host(VoicesStop))
  /\ WF_vars(Host(VoiceTime))

\* ------------------------------------------------------------ properties

\* A step of the interval callback, of a handler.
IsTick == lastOp' = <<"tick">>

\* C3: every sequencer tick sets the step column to (previous + 1) mod 16: the
\* first tick after a start, from the stopped value -1, yields column 0, column
\* 15 is followed by column 0, and any other column by the next one.
C3_TickAdvancesColumn ==
  [][IsTick => /\ currentCol \in -1 .. 14 => currentCol' = currentCol + 1
               /\ currentCol = 15 => currentCol' = 0]_vars

\* C3 witness: the tick after column 15 has returned to column 0; the effect
\* of the cell fired at column 15 is still live.
C3_Witness ==
  /\ lastOp = <<"tick">>
  /\ currentCol = 0
  /\ \E k \in DOMAIN effects : effects[k].c = 15 /\ now - effects[k].startTime < 600

\* C8: brightness(row, col) is in [0, 1] for every cell at every time of
\* evaluation, also after an effect's lifetime has elapsed and before it is pruned.
C8_BrightnessInRange ==
  \A r \in RowIdx, c \in ColIdx :
    LET b == getCellBrightness(effects, activeLayerIdx, r, c, now)
    IN 0 <= b /\ b <= 1000

\* C10: every SPLASH effect is removed within a bounded number of simulation
\* passes after its creation: a particle's life of 1.0 decreasing by 0.02 per
\* pass is used up after 50 passes, so no live SPLASH effect has gone through
\* more than 51.
C10_SplashRemoved ==
  \A k \in DOMAIN effects : effects[k].type = "SPLASH" => passes[k] <= 51

\* C2: a tick that moves to column c invokes the tone trigger exactly once, with
\* (r, the layer's kind, its octave offset, its current volume), for every layer
\* and row whose cell (r, c) is active, whichever layer is displayed, and for no
\* other; below capacity it creates exactly one effect at (r, c), owned by the
\* layer and of the layer's configured archetype, for each such cell and no other.
C2_TickTriggers ==
  [][IsTick =>
       LET col == currentCol'
           fired == {lr \in LayerIdx \X RowIdx : CellAt(grids[lr[1]], lr[2], col)}
           nCalls(L, r) ==
             Cardinality({k \in DOMAIN calls' :
                calls'[k] = [row |-> r, layerType |-> LAYERS_CONFIG[L].type,
                             baseOctave |-> LAYERS_CONFIG[L].baseOctave,
                             rawVolume |-> layerVolumes[L]]})
           nEffects(L, r) ==
             Cardinality({k \in (Len(effects) + 1) .. Len(effects') :
                /\ effects'[k].r = r
                /\ effects'[k].c = col
                /\ effects'[k].layerIdx = L
                /\ effects'[k].type = layerEffects[L]})
       IN /\ SubSeq(effects', 1, Len(effects)) = effects
          /\ Len(calls') = Cardinality(fired)
          /\ \A L \in LayerIdx, r \in RowIdx :
               nCalls(L, r) = IF <<L, r>> \in fired THEN 1 ELSE 0
          /\ Len(effects') < MAX_EFFECTS =>
               /\ Len(effects') - Len(effects) = Cardinality(fired)
               /\ \A L \in LayerIdx, r \in RowIdx :
                    nEffects(L, r) = IF <<L, r>> \in fired THEN 1 ELSE 0]_vars

\* C2 witness: a tick fired cells of two layers, one of them with a changed
\* volume, while another layer was displayed.
C2_Witness ==
  /\ lastOp = <<"tick">>
  /\ Len(calls) >= 2
  /\ \E k \in DOMAIN calls : calls[k].rawVolume # 800 /\ calls[k].layerType = "triangle"
  /\ \E k \in DOMAIN effects : effects[k].layerIdx = 1 /\ effects[k].startTime = now
  /\ activeLayerIdx = 1

\* C4: while the sequencer is stopped the step column reads -1 and no interval
\* exists, and between two stopped states no tick fires: the column does not
\* change, no tone is triggered and no effect is created.
C4_StoppedIsSilent ==
  /\ [](~isPlaying => currentCol = -1 /\ DOMAIN timers = {})
  /\ [][~isPlaying /\ ~isPlaying' =>
          /\ lastOp' # <<"tick">>
          /\ currentCol' = currentCol
          /\ calls' = calls
          /\ Len(effects') <= Len(effects)]_vars

\* C4 witness: the sequencer was paused after ticks had created effects.
C4_Witness ==
  /\ ~isPlaying
  /\ lastOp = <<"handleStart">>
  /\ userOps >= 2
  /\ Len(effects) > 0

\* C5 as stated: the column is -1 exactly when the sequencer is stopped, and in
\* 0 .. 15 whenever it is running.
C5_ColumnIffStopped ==
  /\ currentCol \in -1 .. 15
  /\ currentCol = -1 <=> ~isPlaying

\* C5 amended: the column is in -1 .. 15 and is -1 whenever the sequencer is
\* stopped; while running it is -1 only from the start until the first tick,
\* every tick leaves it in 0 .. 15, and it does not return to -1 while running.
C5_ColumnRange ==
  /\ [](currentCol \in -1 .. 15 /\ (~isPlaying => currentCol = -1))
  /\ [][/\ IsTick => currentCol' \in 0 .. 15
        /\ isPlaying /\ isPlaying' /\ currentCol # -1 => currentCol' # -1]_vars

\* C5 witness: running again after a pause, before the first tick of the new
\* run, with effects of the earlier run still live.
C5_Witness ==
  /\ isPlaying
  /\ currentCol = -1
  /\ lastOp = <<"handleStart">>
  /\ Len(effects) > 0

\* C6: the stored tempo is always in [60, 240]; a tempo change to x stores
\* clamp(x, 60, 240) whatever was stored before; every interval's period is
\* 60000 / tempo / 4 for the stored tempo, never for a tempo below 60.
C6_TempoClamped ==
  /\ [](/\ bpm \in MIN_BPM .. MAX_BPM
        /\ \A id \in DOMAIN timers :
             /\ timers[id].safeBpm = bpm
             /\ 4 * bpm * timers[id].msPerBeat <= 60000 * 1000
             /\ 4 * bpm * (timers[id].msPerBeat + 1) > 60000 * 1000)
  /\ [][\A x \in InputBpm :
          lastOp' = <<"handleBpmChange", x>> =>
            bpm' = IF x < 60 THEN 60 ELSE IF x > 240 THEN 240 ELSE x]_vars

\* C6 witness: setTempo(1000) while running stored 240 and the interval was
\* recreated with it.
C6_Witness ==
  /\ lastOp = <<"handleBpmChange", 1000>>
  /\ bpm = 240
  /\ isPlaying
  /\ \E id \in DOMAIN timers : timers[id].safeBpm = 240

\* C7: clearLayer sets every cell of the selected layer's grid inactive and
\* leaves the other layers' grids, the effect collection, the sequencer state
\* and the layer configuration unchanged.
C7_ClearFrame ==
  [][lastOp' = <<"handleClear">> =>
       /\ ActiveCells(grids'[activeLayerIdx]) = {}
       /\ \A r \in RowIdx : DOMAIN grids'[activeLayerIdx][r] = ColIdx
       /\ \A L \in LayerIdx \ {activeLayerIdx} : grids'[L] = grids[L]
       /\ effects' = effects
       /\ <<isPlaying', currentCol', bpm'>> = <<isPlaying, currentCol, bpm>>
       /\ <<layerEffects', layerVolumes', activeLayerIdx'>>
            = <<layerEffects, layerVolumes, activeLayerIdx>>]_vars

\* C7 witness: layer 0 of the preset pattern was cleared while playing; the
\* cells of layers 1 and 2 are still active.
C7_Witness ==
  /\ lastOp = <<"handleClear">>
  /\ activeLayerIdx = 0
  /\ grids[0] = EmptyLayer
  /\ grids[1] = PresetGrids[1]
  /\ grids[2] = PresetGrids[2]
  /\ isPlaying

\* C9: brightness counts only effects of the displayed layer: when every live
\* effect belongs to another layer, or none is live, it is exactly 0 at every cell.
C9_OtherLayersDark ==
  (\A k \in DOMAIN effects : effects[k].layerIdx # activeLayerIdx) =>
    \A r \in RowIdx, c \in ColIdx :
      getCellBrightness(effects, activeLayerIdx, r, c, now) = 0

\* C9 witness: effects of layers 1 and 2 are live, one of them at its brightest
\* cell, and the empty layer 3 is displayed.
C9_Witness ==
  /\ activeLayerIdx = 3
  /\ \E k \in DOMAIN effects : effects[k].type = "SPLASH"
  /\ \E k \in DOMAIN effects : effects[k].type = "GRAVITY"
  /\ \A k \in DOMAIN effects : effects[k].layerIdx # 3

\* C1: the live-effect collection never holds more than 150 effects, and a tick
\* that finds 150 effects live leaves the collection as it was.
C1_Capacity ==
  /\ [](Len(effects) <= 150)
  /\ [][IsTick /\ Len(effects) = 150 => effects' = effects]_vars

\* C1 witness: a tick has filled the collection to 150 and created fewer
\* effects than it fired cells: the insertions past capacity were rejected.
C1_Witness ==
  /\ lastOp = <<"tick">>
  /\ Len(effects) = 150
  /\ Len(calls) = 64
  /\ Cardinality({k \in DOMAIN effects : effects[k].startTime = now}) < 64

\* C11: a SPLASH effect is created with exactly 12 particles, each at offset
\* (0, 0) with life 1.0; a GRAVITY effect is created at the height of its
\* origin row with velocity 0; a RIPPLE or STAR effect is created with the
\* common fields only, no physics state.
C11_EffectsAsCreated ==
  [][IsTick =>
       \A k \in (Len(effects) + 1) .. Len(effects') :
         LET eff == effects'[k]
         IN /\ eff.type = "SPLASH" =>
                 /\ Len(eff.particles) = 12
                 /\ \A i \in DOMAIN eff.particles :
                      /\ eff.particles[i].r = 0
                      /\ eff.particles[i].c = 0
                      /\ eff.particles[i].life = 1000
            /\ eff.type = "GRAVITY" => eff.y = eff.r * 1000 /\ eff.dy = 0
            /\ eff.type \in {"RIPPLE", "STAR"} =>
                 DOMAIN eff = {"id", "type", "r", "c", "startTime", "color", "layerIdx"}]_vars

\* C11 witness: the tick of column 0 has created a GRAVITY and a SPLASH effect
\* while a STAR effect of column 15 was live.
C11_Witness ==
  /\ lastOp = <<"tick">>
  /\ currentCol = 0
  /\ \E k \in DOMAIN effects : effects[k].type = "GRAVITY" /\ effects[k].startTime = now
  /\ \E k \in DOMAIN effects : effects[k].type = "SPLASH" /\ effects[k].startTime = now
  /\ \E k \in DOMAIN effects : effects[k].type = "STAR"

\* C12: a pass that takes a GRAVITY effect past the floor leaves it on the
\* floor, at 15.5, with rebound velocity -sqrt(2 g (floor - origin row)), to the
\* milli, when the floor is below the origin row, and exactly 0 otherwise.
C12_FloorContact ==
  [][lastOp' = <<"gravityPass">> /\ effects[1].y + effects[1].dy > 15500 =>
       LET height == 15500 - effects[1].origin
           v == -effects'[1].dy
       IN /\ effects'[1].y = 15500
          /\ height > 0 => /\ v >= 0
                           /\ v * v <= 2 * 25 * height
                           /\ (v + 1) * (v + 1) > 2 * 25 * height
          /\ height <= 0 => v = 0]_vars

\* C12 witness: an effect whose origin row is the floor has touched the floor
\* and rests there with velocity 0.
C12_Witness ==
  /\ lastOp = <<"gravityPass">>
  /\ effects[1].origin = 15500
  /\ effects[1].y = 15500
  /\ effects[1].dy = 0
  /\ passes[1] >= 2

\* C13: every layer volume is in [0, 1], and whatever volume a trigger is
\* given, the peak gain of the tone voice it creates lies between 0 and the
\* peak level of its waveform (0.3 square, 0.5 triangle, 0.6 otherwise), and the
\* per-trigger gain of a percussion voice lies in [0, 1].
C13_GainsInRange ==
  /\ \A L \in DOMAIN layerVolumes : layerVolumes[L] \in 0 .. 1000
  /\ \A k \in DOMAIN voices :
       IF voices[k].kind = "tone"
       THEN /\ 0 <= voices[k].gain
            /\ voices[k].gain <=
                 (IF calls[k].layerType = "square" THEN 300
                  ELSE IF calls[k].layerType = "triangle" THEN 500 ELSE 600)
       ELSE 0 <= voices[k].gain /\ voices[k].gain <= 1000

\* C13 witness: a square voice triggered with volume 5 on an initialized
\* engine peaks at 0.3, after the layer volume was set from -5.
C13_Witness ==
  /\ lastOp = <<"playTone">>
  /\ calls[1].rawVolume = 5000
  /\ calls[1].layerType = "square"
  /\ Len(voices) = 1
  /\ voices[1].gain = 300
  /\ layerVolumes[0] = 0

\* C14: the pitch ratio of a tone voice for row r is the entry r of the
\* pentatonic table for r in 0 .. 15, and 1.0 for any other r.
C14_PitchRatio ==
  LET table == <<4000, 3367, 3000, 2667, 2378, 2000, 1683, 1500,
                 1333, 1189, 1000, 841, 750, 667, 595, 500>>
  IN \A k \in DOMAIN voices :
       voices[k].kind = "tone" =>
         voices[k].ratio = IF calls[k].row \in 0 .. 15
                           THEN table[calls[k].row + 1] ELSE 1000

\* C14 witness: a tone voice was created for row 16, outside the table.
C14_Witness ==
  /\ lastOp = <<"playTone">>
  /\ calls[1].row = 16
  /\ Len(voices) = 1
  /\ voices[1].kind = "tone"
  /\ voices[1].ratio = 1000

\* C16: init() constructs a context only when the engine holds none, so at most
\* one context is open at any time; on an engine that holds a context it leaves
\* the engine as it is and constructs nothing (a suspended context is resumed);
\* on a host without an audio subsystem it leaves the engine uninitialized.
C16_InitIdempotent ==
  /\ [](Cardinality({id \in DOMAIN contexts : contexts[id] # "closed"}) <= 1)
  /\ [][lastOp' = <<"init">> =>
          LET e == getEngine(engineRef)[1]
          IN /\ Len(contexts') <= Len(contexts) + 1
             /\ e.ctx # Null =>
                  /\ engineRef' = <<e>>
                  /\ Len(contexts') = Len(contexts)
                  /\ \A id \in DOMAIN contexts :
                       contexts'[id] = IF id = e.ctx /\ contexts[id] = "suspended"
                                       THEN "running" ELSE contexts[id]
             /\ host = "unsupported" =>
                  /\ engineRef' = <<e>>
                  /\ ~engineRef'[1].isInitialized
                  /\ contexts' = contexts]_vars

\* C16 witness: init() was called again on an initialized engine that had
\* already created a voice: its context is still the first and only one.
C16_Witness ==
  /\ lastOp = <<"init">>
  /\ host = "ok"
  /\ engineRef[1].ctx = 1
  /\ engineRef[1].isInitialized
  /\ contexts = <<"running">>
  /\ Len(voices) = 1
  /\ voices[1].ctx = 1

\* C17: dispose() on an engine that holds a context closes it, forgets it and
\* marks the engine uninitialized; on an engine that holds none it changes
\* nothing; a trigger on an engine that holds no context creates no voice.
C17_DisposeReleases ==
  /\ [][lastOp' = <<"dispose">> =>
          LET e == getEngine(engineRef)[1]
          IN IF e.ctx # Null
             THEN /\ contexts'[e.ctx] = "closed"
                  /\ engineRef'[1].ctx = Null
                  /\ ~engineRef'[1].isInitialized
             ELSE engineRef' = <<e>> /\ contexts' = contexts]_vars
  /\ [][lastOp' \in {<<"playTone">>, <<"playDrum">>} /\ engineRef'[1].ctx = Null =>
          voices' = <<>>]_vars

\* C17 witness: a trigger after dispose() of an initialized engine created no
\* voice; the engine's context is closed.
C17_Witness ==
  /\ lastOp = <<"playDrum">>
  /\ contexts = <<"closed">>
  /\ engineRef[1].ctx = Null
  /\ engineRef[1].masterGain = 1
  /\ voices = <<>>

\* C15: on an engine that was never initialized, failed to initialize or was
\* disposed, a trigger creates no voice, and a sequencer tick still advances
\* the column and still creates the effects of the active cells of the column.
C15_SilentWithoutEngine ==
  [][/\ lastOp' \in {<<"tick">>, <<"playTone">>, <<"playDrum">>}
     /\ (engineRef'[1].ctx = Null \/ ~engineRef'[1].isInitialized)
     => /\ voices' = <<>>
        /\ IsTick =>
             /\ currentCol' = (currentCol + 1) % 16
             /\ Len(effects') - Len(effects) =
                  Cardinality({lr \in LayerIdx \X RowIdx :
                                 CellAt(grids[lr[1]], lr[2], currentCol')})
             /\ Len(calls') = Len(effects') - Len(effects)]_vars

\* C15 witness: on a host without an audio subsystem the tick of column 0 has
\* called the trigger for two cells, created no voice and created two effects.
C15_Witness ==
  /\ host = "unsupported"
  /\ lastOp = <<"tick">>
  /\ currentCol = 0
  /\ Len(calls) = 2
  /\ voices = <<>>
  /\ Cardinality({k \in DOMAIN effects : effects[k].startTime = now}) = 2

\* C18: drag-paint, by mouse-enter while pressed or by touch-move, never turns
\* an active cell inactive: on an inactive cell of the selected layer it makes
\* that cell active and changes no other cell of any layer; on an active cell,
\* or when the handler does not act, it leaves every grid unchanged.
C18_PaintOnlyActivates ==
  [][lastOp'[1] \in {"handleMouseEnter", "handleTouchMove"} =>
       LET r == lastOp'[2]
           c == lastOp'[3]
           acts == /\ lastTouchedRef # <<r, c>>
                   /\ lastOp'[1] = "handleMouseEnter" => isMouseDown
       IN /\ \A L \in LayerIdx, rr \in RowIdx, cc \in ColIdx :
               CellAt(grids[L], rr, cc) => CellAt(grids'[L], rr, cc)
          /\ grids' = IF acts /\ ~CellAt(grids[activeLayerIdx], r, c)
                      THEN [grids EXCEPT ![activeLayerIdx][r][c] = TRUE]
                      ELSE grids]_vars

\* C18 witness: a press on (10, 0) of layer 0 switched it off and the drag
\* into the inactive cell (10, 1) switched that one on.
C18_Witness ==
  /\ lastOp = <<"handleMouseEnter", 10, 1>>
  /\ userOps = 2
  /\ activeLayerIdx = 0
  /\ ~grids[0][10][0]
  /\ grids[0][10][1]
  /\ grids[1] = PresetGrids[1]

\* C19: toggleCell(row, col) inverts that one cell of the selected layer and
\* changes no other cell of any layer, creates and removes no effect, triggers
\* no voice, and leaves the step column, the running flag, the tempo, the
\* volumes and the archetypes unchanged; toggling a cell twice restores the grids.
C19_ToggleFrame ==
  [][lastOp'[1] = "toggleCell" =>
       /\ grids' = [grids EXCEPT ![activeLayerIdx][lastOp'[2]][lastOp'[3]] = ~@]
       /\ toggleCell(grids', activeLayerIdx', lastOp'[2], lastOp'[3]) = grids
       /\ effects' = effects
       /\ calls' = calls /\ voices' = voices
       /\ <<currentCol', isPlaying', bpm'>> = <<currentCol, isPlaying, bpm>>
       /\ <<layerVolumes', layerEffects'>> = <<layerVolumes, layerEffects>>]_vars

\* C19 witness: while playing with effects live, the active cell (10, 0) was
\* toggled twice and the pattern is the preset one again.
C19_Witness ==
  /\ lastOp = <<"toggleCell", 10, 0>>
  /\ userOps = 2
  /\ grids = PresetGrids
  /\ isPlaying
  /\ Len(effects) > 0

\* C20: every layer's grid is a 16 x 16 boolean matrix in every state, whatever
\* integer arguments toggleCell and drag-paint are given: no cell outside rows
\* 0 .. 15 and columns 0 .. 15 exists or reads active.
C20_GridsStaySquare ==
  \A L \in LayerIdx :
    /\ DOMAIN grids[L] = 0 .. 15
    /\ \A r \in 0 .. 15 :
         /\ DOMAIN grids[L][r] = 0 .. 15
         /\ \A c \in 0 .. 15 : grids[L][r][c] \in BOOLEAN

\* C21: the pattern grids are changed only by toggle, drag-paint and clear.
\* A sequencer tick, a simulation pass, play/pause, a tempo change, a volume
\* change, an archetype change, a layer selection and the passing of time
\* leave every cell of every layer's grid as it was; a step that does change
\* a grid is a toggle, a paint or a clear.
C21_GridsOwnedByEdits ==
  [][/\ lastOp'[1] \in {"tick", "frame", "time", "handleStart", "handleBpmChange",
                        "handleVolumeChange", "changeLayerEffect", "setActiveLayerIdx"}
          => grids' = grids
     /\ grids' # grids
          => lastOp'[1] \in {"toggleCell", "handleMouseEnter", "handleTouchMove",
                             "handleClear"}]_vars

\* A tick has fired the cells of column 0 of the preset pattern, at a tempo
\* the user changed while running, and a simulation pass has followed: the
\* pattern is still the preset one.
C21_Witness ==
  /\ lastOp = <<"frame">>
  /\ isPlaying
  /\ bpm # DEFAULT_BPM
  /\ currentCol = 0
  /\ Len(effects) = 3
  /\ grids = PresetGrids

\* C22: the render-frame driver is scheduled only while at least one effect
\* is live. In every state a frame request is pending exactly when the
\* collection holds an effect, and the pending request is the one requestRef
\* names: a pass that empties the collection leaves no request behind, and an
\* insertion into the empty collection leaves one.
C22_FramesIffEffects ==
  /\ (Len(effects) = 0) <=> (DOMAIN frames = {})
  /\ Len(effects) > 0 => requestRef \in DOMAIN frames

\* A simulation pass has removed the last effect of a run, and no frame
\* request is left.
C22_Witness ==
  /\ lastOp = <<"frame">>
  /\ effects = <<>>
  /\ DOMAIN frames = {}
  /\ requestRef # 0

\* C23: at most one sequencer timer exists at any time and none while
\* stopped. After every step the host holds no interval when the sequencer
\* is stopped and exactly the one intervalId names when it is running; a
\* change of grid, layer volume, layer archetype or tempo made while running
\* replaces the interval by one whose period starts at the change; and after
\* a tick no interval is still due, so an instant sees one column advance.
C23_OneTimer ==
  [][/\ Cardinality(DOMAIN timers') <= 1
     /\ ~isPlaying' => DOMAIN timers' = {}
     /\ isPlaying' => DOMAIN timers' = {intervalId'}
     /\ ( /\ isPlaying /\ isPlaying'
          /\ \/ lastOp'[1] \in {"handleClear", "toggleCell", "handleVolumeChange",
                                "changeLayerEffect"}
             \/ lastOp'[1] = "handleBpmChange" /\ bpm' # bpm )
        => timers'[intervalId'] = NewTimer(bpm', now)
     /\ IsTick => \A id \in DOMAIN timers' : timers'[id].due > now * 1000]_vars

\* A layer volume was changed while the sequencer was running, after ticks:
\* one interval exists and its period started at the change.
C23_Witness ==
  /\ lastOp = <<"handleVolumeChange">>
  /\ isPlaying
  /\ currentCol >= 0
  /\ now > 0
  /\ DOMAIN timers = {intervalId}
  /\ timers[intervalId].due = now * 1000 + timers[intervalId].msPerBeat

\* C24: when a cell fires while the collection already holds 150 effects,
\* only the effect insertion is dropped. A tick that ends with the collection
\* full and with fewer effects created than cells fired keeps the existing
\* effects as they were, still triggers one tone, with its voice, for every
\* active cell of the new column, and still advances the column.
C24_OnlyInsertionDropped ==
  [][IsTick =>
       LET col == NextCol(currentCol)
           fired == {lr \in LayerIdx \X RowIdx : CellAt(grids[lr[1]], lr[2], col)}
           dropped == Cardinality(fired) - (Len(effects') - Len(effects))
       IN /\ dropped >= 0
          /\ dropped > 0 =>
               /\ Len(effects') = MAX_EFFECTS
               /\ SubSeq(effects', 1, Len(effects)) = effects
               /\ currentCol' = col
               /\ Len(calls') = Cardinality(fired)
               /\ \A lr \in fired :
                    \E k \in DOMAIN calls' :
                      /\ calls'[k].row = lr[2]
                      /\ calls'[k].layerType = LAYERS_CONFIG[lr[1]].type
                      /\ calls'[k].baseOctave = LAYERS_CONFIG[lr[1]].baseOctave
               /\ Len(voices') = Len(calls')]_vars

\* A tick found the collection full: it created no effect at all, and
\* triggered a tone for each of the 64 cells of its column.
C24_Witness ==
  /\ lastOp = <<"tick">>
  /\ Len(effects) = MAX_EFFECTS
  /\ \A k \in DOMAIN effects : effects[k].startTime < now
  /\ Len(calls) = 4 * ROWS
  /\ Len(voices) = 4 * ROWS
  /\ currentCol = 3

\* C25: shutdown from any prior state leaves no pending render-frame request
\* and no sequencer timer and releases the audio device, and the disposal
\* steps performed again change nothing. Once the component has unmounted,
\* whether it was running or stopped, with or without effects, with an
\* engine initialized, half built or never created, the host holds no frame
\* request and no interval, every AudioContext constructed is closed and the
\* engine holds none; a step taken after the unmount changes none of these.
C25_ShutdownReleases ==
  /\ [](~IsMounted =>
          /\ DOMAIN frames = {}
          /\ DOMAIN timers = {}
          /\ \A id \in DOMAIN contexts : contexts[id] = "closed"
          /\ engineRef # <<>> => engineRef[1].ctx = Null /\ ~engineRef[1].isInitialized)
  /\ [][~IsMounted =>
          UNCHANGED <<frames, timers, engineRef, contexts, requestRef, intervalId,
                      effects, grids, isPlaying, currentCol>>]_vars

\* The component was unmounted while running, with live effects and an
\* initialized engine, and the disposal steps have run a second time.
C25_Witness ==
  /\ lastOp = <<"unmount", 2>>
  /\ isPlaying
  /\ currentCol >= 0
  /\ Len(effects) > 0
  /\ requestRef # 0
  /\ intervalId # 0
  /\ contexts = <<"closed">>
  /\ DOMAIN frames = {}
  /\ DOMAIN timers = {}

\* C26: setVolume and setEffectArchetype change only the selected layer's
\* entry. A volume change leaves the three other volumes and all archetypes
\* as they were, an archetype change leaves the three other archetypes and
\* all volumes as they were, and both leave all grids, the running flag, the
\* tempo, the step column and the effects as they were; after every step
\* there are exactly 4 layers, each with a volume in [0, 1] and an archetype
\* among RIPPLE, GRAVITY, SPLASH and STAR.
C26_LayerFrame ==
  [][/\ DOMAIN layerVolumes' = LayerIdx
     /\ DOMAIN layerEffects' = LayerIdx
     /\ DOMAIN grids' = LayerIdx
     /\ \A i \in LayerIdx : layerEffects'[i] \in EFFECT_TYPES
     /\ \A i \in LayerIdx : layerVolumes'[i] >= 0 /\ layerVolumes'[i] <= 1000
     /\ lastOp'[1] = "handleVolumeChange" =>
          /\ \A i \in LayerIdx \ {activeLayerIdx} : layerVolumes'[i] = layerVolumes[i]
          /\ layerEffects' = layerEffects
     /\ lastOp'[1] = "changeLayerEffect" =>
          /\ \A i \in LayerIdx \ {activeLayerIdx} : layerEffects'[i] = layerEffects[i]
          /\ layerVolumes' = layerVolumes
     /\ lastOp'[1] \in {"handleVolumeChange", "changeLayerEffect"} =>
          /\ grids' = grids
          /\ effects' = effects
          /\ isPlaying' = isPlaying
          /\ bpm' = bpm
          /\ currentCol' = currentCol
          /\ activeLayerIdx' = activeLayerIdx]_vars

\* While running, after a tick, the volume of layer 1 was changed: it alone
\* differs from the initial volumes, and the archetypes are the initial ones.
C26_Witness ==
  /\ lastOp = <<"handleVolumeChange">>
  /\ activeLayerIdx = 1
  /\ layerVolumes = [i \in LayerIdx |-> IF i = 1 THEN 500 ELSE 800]
  /\ layerEffects[1] = "GRAVITY"
  /\ isPlaying
  /\ currentCol = 0
  /\ Len(effects) > 0

\* C27: on every simulation pass each particle of a live SPLASH effect is
\* updated as position += velocity, row-velocity += 0.005, life -= 0.02,
\* scale *= 0.95, and particles whose resulting life is <= 0 are removed.
\* For every SPLASH effect a pass keeps, its particles after the pass are the
\* particles before it, each updated so, those with life <= 0 left out.
C27_SplashParticlesUpdated ==
  [][lastOp' = <<"frame">> =>
       LET kept == KeptIndices(effects, now)
           Updated(p) == [r |-> p.r + p.dr, c |-> p.c + p.dc, dr |-> p.dr + 5,
                          dc |-> p.dc, life |-> p.life - 20,
                          scale |-> (p.scale * 95) \div 100]
       IN \A j \in 1 .. Len(kept) :
            effects[kept[j]].type = "SPLASH" =>
              LET before == effects[kept[j]].particles
                  all == [k \in DOMAIN before |-> Updated(before[k])]
              IN effects'[j].particles = SelectSeq(all, LAMBDA p : p.life > 0)]_vars

\* C28: a GRAVITY effect terminates either when its rebound velocity has
\* decayed below the threshold while it rests near the floor or on the first
\* simulation pass at which its age exceeds 3000 ms. A GRAVITY effect that a
\* pass keeps has age at most 3000 ms and, as updated, is not at rest
\* (velocity in (-0.05, 0) with |y - 15.5| < 0.1); one that a pass removes
\* has age above 3000 ms or is at rest as updated.
C28_GravityTerminates ==
  [][lastOp' = <<"frame">> =>
       \A k \in DOMAIN effects :
         effects[k].type = "GRAVITY" =>
           LET e == effects[k]
               age == now - e.startTime
               after == {j \in DOMAIN effects' : /\ effects'[j].type = "GRAVITY"
                                                 /\ effects'[j].startTime = e.startTime}
               AtRest(y, dy) == dy < 0 /\ dy > -50 /\ Abs(y - FLOOR_Y) < 100
               s == GravityStep(e.y, e.dy, e.r * 1000)
           IN IF after # {}
              THEN /\ age <= 3000
                   /\ \A j \in after : ~AtRest(effects'[j].y, effects'[j].dy)
              ELSE age > 3000 \/ AtRest(s.y, s.dy)]_vars

\* A pass at age 3100 ms has removed the GRAVITY effect of the first tick;
\* the SPLASH effect created by the same tick is still there.
C28_Witness ==
  /\ lastOp = <<"frame">>
  /\ \A k \in DOMAIN effects : effects[k].type # "GRAVITY"
  /\ \E k \in DOMAIN effects : /\ effects[k].type = "SPLASH"
                               /\ now - effects[k].startTime = 3100
                               /\ passes[k] = 31

\* C29 as stated: a STAR effect terminates at age >= 600 ms. A simulation
\* pass run when the effect's age is 600 ms or more removes it, and a pass
\* run at a smaller age keeps it unchanged.
C29_StarEndsAt600 ==
  [][lastOp' = <<"frame">> =>
       \A k \in DOMAIN effects :
         effects[k].type = "STAR" =>
           LET e == effects[k]
               age == now - e.startTime
               after == {j \in DOMAIN effects' : /\ effects'[j].type = "STAR"
                                                 /\ effects'[j].startTime = e.startTime}
           IN IF age >= 600
              THEN after = {}
              ELSE \E j \in after : effects'[j] = e]_vars

\* C29, amended: a STAR effect glows for less than 600 ms and is removed
\* after 600 ms. A simulation pass run when the effect's age is more than
\* 600 ms removes it, a pass run at age 600 ms or less keeps it unchanged,
\* and from age 600 ms on the effect adds no brightness to any cell.
C29_StarEndsAfter600 ==
  [][/\ lastOp' = <<"frame">> =>
          \A k \in DOMAIN effects :
            effects[k].type = "STAR" =>
              LET e == effects[k]
                  age == now - e.startTime
                  after == {j \in DOMAIN effects' : /\ effects'[j].type = "STAR"
                                                    /\ effects'[j].startTime = e.startTime}
              IN IF age > 600
                 THEN after = {}
                 ELSE \E j \in after : effects'[j] = e
     /\ \A j \in DOMAIN effects' :
          effects'[j].type = "STAR" /\ now' - effects'[j].startTime >= 600 =>
            \A r \in RowIdx, c \in ColIdx : Glow(effects'[j], r, c, now') = 0]_vars

\* A simulation pass run at age exactly 600 ms has kept a STAR effect.
C29_Witness ==
  /\ lastOp = <<"frame">>
  /\ \E k \in DOMAIN effects : /\ effects[k].type = "STAR"
                               /\ now - effects[k].startTime = 600
                               /\ passes[k] = 6

\* C30: once the sequencer is stopped and no further effect is inserted, the
\* live-effect collection eventually becomes empty, whatever archetypes the
\* remaining effects have, and the render-frame driver then stops. From every
\* state in which the sequencer is stopped, either it is started again or a
\* state is reached with no effect and no pending frame request.
C30_EffectsDrain ==
  (~isPlaying) ~> (isPlaying \/ (Len(effects) = 0 /\ DOMAIN frames = {}))

\* C31: capacity exhaustion is transient. No effect lives through more than
\* 51 simulation passes (3000 ms of a GRAVITY effect are 30 frames, the life
\* of a SPLASH particle 50 passes), so a collection of 150 effects holds one
\* that is younger: the 150 of 51 passes before have made room.
C31_CapacityTransient ==
  Len(effects) = MAX_EFFECTS => \E k \in DOMAIN effects : passes[k] <= 51

\* The state follows an edit that makes the sequencer effect run again.
IsEdit == lastOp[1] \in {"handleClear", "handleVolumeChange", "changeLayerEffect", "handleBpmChange"}

\* C32 as stated: while the sequencer remains running a tick eventually
\* fires, whatever edits are made meanwhile.
C32_TickUnderEdits == isPlaying ~> (lastOp = <<"tick">> \/ ~isPlaying)

\* C32: while the sequencer remains running a tick eventually fires once the
\* edits of grid, volume, archetype and tempo have ceased.
C32_TickOnceEditsCease ==
  (isPlaying /\ []~IsEdit) ~> (lastOp = <<"tick">> \/ ~isPlaying)

\* A tick plays column 1 after the volume, the archetype and the tempo were
\* all changed in the running sequencer.
C32_Witness ==
  /\ lastOp = <<"tick">>
  /\ isPlaying
  /\ currentCol = 1
  /\ layerVolumes[0] = EditVolume
  /\ layerEffects[0] = EditArchetype
  /\ bpm = MAX_BPM

\* C33: at most one render-frame request is pending at any time, so each
\* live effect advances at most once per display frame: in every state the
\* host holds at most one request, and an effect has gone through no more
\* simulation passes than display frames have elapsed since it was created
\* (as far as the pass counter counts).
C33_OneFrameLoop ==
  /\ Cardinality(DOMAIN frames) <= 1
  /\ \A k \in DOMAIN effects :
       passes[k] < MaxPasses => passes[k] * TimeStepMs <= now - effects[k].startTime

\* A tick has just inserted the effect of column 3 for the second time: the
\* one of the first lap was removed by a simulation pass, the SPLASH effect
\* of column 0 has gone through more than thirty passes, and one request is
\* pending.
C33_Witness ==
  /\ lastOp = <<"tick">>
  /\ currentCol = 3
  /\ Cardinality(DOMAIN frames) = 1
  /\ \E k \in DOMAIN effects : effects[k].type = "SPLASH" /\ passes[k] > 30
  /\ \E k \in DOMAIN effects : effects[k].c = 3 /\ passes[k] = 0
  /\ Cardinality({k \in DOMAIN effects : effects[k].c = 3}) = 1

\* C34: the two drivers touch disjoint state apart from the effect
\* collection. A simulation pass leaves the step column, the running flag,
\* the tempo, the grids, the volumes and the archetypes unchanged and adds no
\* effect; a tick leaves every effect it finds in place and as it was, its
\* additions coming after them.
C34_DriversDisjoint ==
  [][/\ lastOp' = <<"frame">> =>
          /\ UNCHANGED <<currentCol, isPlaying, bpm, grids, layerVolumes, layerEffects>>
          /\ Len(effects') <= Len(effects)
     /\ IsTick =>
          /\ Len(effects') >= Len(effects)
          /\ SubSeq(effects', 1, Len(effects)) = effects]_vars

\* A simulation pass of the running sequencer has just advanced two effects,
\* the second of them appended by a tick after the first had been advanced.
C34_Witness ==
  /\ lastOp = <<"frame">>
  /\ isPlaying
  /\ Len(effects) >= 2
  /\ passes[1] > passes[Len(passes)]
  /\ passes[Len(passes)] >= 1

\* C35: a tempo change made while running keeps the sequencer running and the
\* step column where it is, and leaves one interval, of the period of the
\* stored tempo (60000 / bpm / 4 ms); when the stored tempo changed the
\* period starts at the change. A tick is the callback of an interval of the
\* period of the stored tempo that has come due, and advances the column by
\* exactly one (mod 16).
C35_TempoChangeWhileRunning ==
  [][/\ (lastOp'[1] = "handleBpmChange" /\ isPlaying) =>
          /\ isPlaying'
          /\ currentCol' = currentCol
          /\ DOMAIN timers' = {intervalId'}
          /\ timers'[intervalId'].msPerBeat = (60000000 \div bpm') \div 4
          /\ bpm' # bpm =>
               timers'[intervalId'].due = now * 1000 + (60000000 \div bpm') \div 4
     /\ (IsTick /\ vars' # vars) =>
          /\ currentCol' = (currentCol + 1) % COLS
          /\ timers[intervalId].msPerBeat = (60000000 \div bpm) \div 4
          /\ timers[intervalId].due <= now * 1000]_vars

\* The tempo has just been raised from 120 to 240 in a running sequencer
\* that had played column 0: play and this change are the only user
\* operations so far.
C35_Witness ==
  /\ lastOp = <<"handleBpmChange", 1000>>
  /\ isPlaying
  /\ currentCol = 0
  /\ bpm = MAX_BPM
  /\ userOps = 2
  /\ timers[intervalId].due = now * 1000 + 62500

\* C36: each activation of the play/pause control flips the running flag and
\* leaves no column shown, whatever column had been reached; the first tick
\* of a run, the one that finds no column shown, plays column 0: it triggers
\* one tone for each active cell of column 0.
C36_RestartsAtColumnZero ==
  [][/\ (lastOp' = <<"handleStart">> /\ vars' # vars) =>
          /\ isPlaying' = ~isPlaying
          /\ currentCol' = -1
     /\ (IsTick /\ vars' # vars /\ currentCol = -1) =>
          /\ currentCol' = 0
          /\ Len(calls') = Cardinality({lr \in LayerIdx \X RowIdx : CellAt(grids[lr[1]], lr[2], 0)})]_vars

\* The first tick of a second run has just played column 0: the control was
\* activated three times, and the STAR effect of column 1 of the first run
\* is still live.
C36_Witness ==
  /\ lastOp = <<"tick">>
  /\ isPlaying
  /\ currentCol = 0
  /\ userOps = 3
  /\ \E k \in DOMAIN effects : effects[k].c = 1
  /\ Len(calls) = 1

\* C37: after every step of the audio engine, an initialized engine has a
\* device, a master gain and a compressor; a trigger creates a voice only on
\* an engine that was initialized when it was called; and init() called on an
\* engine that holds a device but is not initialized (the construction of the
\* chain failed) leaves the engine as it is, so it stays uninitialized and
\* its triggers create nothing until dispose() lets go of the device.
C37_EngineStates ==
  [][/\ (engineRef' # <<>> /\ engineRef'[1].isInitialized) =>
          /\ engineRef'[1].ctx # Null
          /\ engineRef'[1].masterGain # Null
          /\ engineRef'[1].compressor # Null
     /\ (lastOp'[1] \in {"playTone", "playDrum"} /\ voices' # <<>>) =>
          /\ engineRef # <<>>
          /\ engineRef[1].isInitialized
     /\ (/\ lastOp' = <<"init">>
         /\ engineRef # <<>>
         /\ engineRef[1].ctx # Null
         /\ ~engineRef[1].isInitialized) =>
          engineRef' = engineRef]_vars

\* On the host whose node construction throws, init() failed after creating
\* the first device, dispose() closed it, init() failed again after creating
\* the second, and a tone trigger has just created nothing.
C37_Witness ==
  /\ host = "throwsChain"
  /\ lastOp = <<"playTone">>
  /\ voices = <<>>
  /\ engineRef[1].ctx = 2
  /\ ~engineRef[1].isInitialized
  /\ contexts = <<"closed", "running">>

\* C38: every tone voice that is created is scheduled to stop strictly after
\* the end of its decay envelope (square: 300 ms and 450 ms after the
\* trigger; triangle: 800 ms and 950 ms; otherwise 500 ms and 650 ms), and
\* once no trigger follows any more the live voices eventually are none.
C38_VoicesStopThemselves ==
  /\ [](\A k \in DOMAIN voices :
          /\ voices[k].stopAt > voices[k].decayEnd
          /\ <<voices[k].decayEnd, voices[k].stopAt>> =
               CASE voices[k].type = "square" -> <<300, 450>>
                 [] voices[k].type = "triangle" -> <<800, 950>>
                 [] OTHER -> <<500, 650>>)
  /\ ([](lastOp # <<"playTone">>)) ~> (voices = <<>>)

\* The last of two voices has just been stopped by the device, 950 ms or
\* more after the first trigger can have come.
C38_Witness ==
  /\ lastOp = <<"stop">>
  /\ voices = <<>>
  /\ userOps = 2
  /\ engineRef[1].isInitialized
  /\ now >= 950

====
